---- MODULE Spec2Model ----
(***************************************************************************)
(* The message translator (MessageProcessor), the message loop of a stage  *)
(* (CoderAgent.run), the event dispatcher (StreamHandler) and the pipeline *)
(* (Orchestrator.run_task) of code-agent-by-claude.                        *)
(*                                                                         *)
(* Python values are modelled as follows.                                  *)
(*   - A str whose characters matter (assistant text, thinking, tool       *)
(*     result content, result text) is a sequence of one-character         *)
(*     strings, so that len, slicing and + are Len, SubSeq and \o.         *)
(*   - A str that is only compared (type tags, tool names, ids) is a TLA+  *)
(*     string.                                                             *)
(*   - An object is a record of its attributes: hasattr(o, "a") is         *)
(*     "a" \in DOMAIN o.                                                   *)
(*   - A value whose Python type is tested (isinstance) is a record tagged *)
(*     with its type in the field py.                                      *)
(*   - A dict is the function from its keys to its values.                 *)
(* Event timestamps (time.time()) are left out.                            *)
(***************************************************************************)
EXTENDS Integers, Sequences, FiniteSets, TLC

VARIABLES
    processor,      \* the MessageProcessor: its agent_name and session_id
    events,         \* every event handed to handler.emit so far, in order
    emitted,        \* the events handed to handler.emit by the latest process call
    raised,         \* TRUE iff the latest process call raised
    received,       \* the messages passed to process so far, in order
    prev_text_len,  \* CoderAgent.run: the text cursor
    result_text,    \* CoderAgent.run: the text handed to the parser at the end
    delta,          \* CoderAgent.run: the latest suffix computed from the cursor
    arg,            \* the argument of a single process call
    pc,             \* "running" | "failed" (the loop), "call" | "done" (one call)
    global_callbacks,  \* StreamHandler._global_callbacks
    callbacks,         \* StreamHandler._callbacks: its keys and their lists
    em,                \* the frame of the latest StreamHandler.emit call
    delivered,         \* the callback invocations of the latest emit call, in order
    n_regs,            \* on and on_all calls so far
    n_emits,           \* emit calls so far
    orch,              \* the Orchestrator: stream_handler set or not, its directories
    run,               \* the frame of run_task: position, arguments and locals
    fs,                \* the directories written by this run_task and what they hold
    trace,             \* what run_task has done so far, in order
    call,              \* one call of a function: its name, argument and outcome
    store,             \* a directory of artifacts: its files and what was saved and loaded
    render             \* a DefaultStreamRenderer: its settings and what it has written

\* the variables of the translator and of the stage loop
tvars ==
    <<processor, events, emitted, raised, received,
      prev_text_len, result_text, delta, arg, pc>>

\* the variables of the dispatcher
dvars == <<global_callbacks, callbacks, em, delivered, n_regs, n_emits>>

\* the variables of the pipeline
ovars == <<orch, run, fs, trace>>

\* the variables of the single calls, of the artifact directory and of the renderer
uvars == <<call, store, render>>

vars ==
    <<processor, events, emitted, raised, received,
      prev_text_len, result_text, delta, arg, pc,
      global_callbacks, callbacks, em, delivered, n_regs, n_emits,
      orch, run, fs, trace,
      call, store, render>>

----------------------------------------------------------------------------
(* Bounds *)

\* messages one stage run receives
MaxMsgs == 2

\* content blocks of one assistant message
MaxBlocks == 2

\* parts of one tool-result content list
MaxParts == 2

\* on and on_all calls on one StreamHandler
MaxRegs == 3

\* emit calls on one StreamHandler
MaxEmits == 2

----------------------------------------------------------------------------
(* Python values *)

EmptyDict == [k \in {} |-> <<>>]

PyNone == [py |-> "None"]

PyStr(s) == [py |-> "str", s |-> s]

PyList(xs) == [py |-> "list", items |-> xs]

PyDict(d) == [py |-> "dict", d |-> d]

\* None where a str is expected (ResultMessage.result is Optional[str])
NoneStr == <<"<None>">>

\* the newline character
NL == "\n"

HasAttr(o, a) == a \in DOMAIN o

\* getattr(o, a, default) and dict.get(k, default)
Get(o, a, default) == IF a \in DOMAIN o THEN o[a] ELSE default

\* x or ""
OrEmpty(s) == IF s = NoneStr THEN <<>> ELSE s

SeqsUpTo(S, n) == UNION {[1..k -> S] : k \in 0..n}

\* sep.join(parts) with sep = "\n"
RECURSIVE JoinNL(_)
JoinNL(parts) ==
    IF parts = <<>> THEN <<>>
    ELSE IF Len(parts) = 1 THEN parts[1]
    ELSE parts[1] \o <<NL>> \o JoinNL(Tail(parts))

----------------------------------------------------------------------------
(* events.py *)

StreamEventBase(cls, type, agent_name, session_id) ==
    [cls |-> cls, type |-> type, agent_name |-> agent_name,
     session_id |-> session_id, timestamp |-> 0, data |-> EmptyDict,
     text |-> <<>>, thinking |-> <<>>,
     tool_name |-> "", tool_input |-> EmptyDict, tool_result |-> <<>>,
     tool_use_id |-> "", message |-> "", phase |-> ""]

\* StreamEvent(type=..., data=...)
StreamEvent(type, agent_name, session_id, data) ==
    [StreamEventBase("StreamEvent", type, agent_name, session_id)
        EXCEPT !.data = data]

\* TextEvent(...): __post_init__ sets the type
TextEvent(type, agent_name, session_id, text) ==
    [StreamEventBase("TextEvent", "text_delta", agent_name, session_id)
        EXCEPT !.text = text]

\* ToolEvent(...): __post_init__ keeps only the two tool types
ToolEvent(type, agent_name, session_id, tool_name, tool_input, tool_result, tool_use_id) ==
    [StreamEventBase("ToolEvent",
                     IF type \in {"tool_start", "tool_result"} THEN type ELSE "tool_start",
                     agent_name, session_id)
        EXCEPT !.tool_name = tool_name, !.tool_input = tool_input,
               !.tool_result = tool_result, !.tool_use_id = tool_use_id]

\* ThinkingEvent(...): __post_init__ sets the type
ThinkingEvent(type, agent_name, session_id, thinking) ==
    [StreamEventBase("ThinkingEvent", "thinking", agent_name, session_id)
        EXCEPT !.thinking = thinking]

\* ProgressEvent(...): __post_init__ sets the type
ProgressEvent(type, agent_name, session_id, message, data) ==
    [StreamEventBase("ProgressEvent", "progress", agent_name, session_id)
        EXCEPT !.message = message, !.data = data]

\* PhaseEvent(...): __post_init__ keeps only the two phase types
PhaseEvent(type, agent_name, session_id, phase) ==
    [StreamEventBase("PhaseEvent",
                     IF type \in {"phase_start", "phase_end"} THEN type ELSE "phase_start",
                     agent_name, session_id)
        EXCEPT !.phase = phase]

----------------------------------------------------------------------------
(* message_processor.py: each handler yields the events it hands to        *)
(* handler.emit, in order, and whether it raised.                          *)

Outcome(evs, exc) == [events |-> evs, raised |-> exc]

\* _process_system
ProcessSystem(self, message) ==
    IF message.subtype = "init"
    THEN Outcome(<<ProgressEvent("progress", self.agent_name, self.session_id,
                                 "Session initialized", message.data)>>, FALSE)
    ELSE Outcome(<<>>, FALSE)

\* the texts of the parts that have a text attribute, in order
RECURSIVE PartTexts(_)
PartTexts(content) ==
    IF content = <<>> THEN <<>>
    ELSE (IF HasAttr(Head(content), "text") THEN <<Head(content).text>> ELSE <<>>)
         \o PartTexts(Tail(content))

RECURSIVE Concat(_)
Concat(parts) == IF parts = <<>> THEN <<>> ELSE Head(parts) \o Concat(Tail(parts))

\* ResultText joining the parts with no separator
ResultTextUnseparated(content) ==
    IF content.py = "str" THEN content.s
    ELSE IF content.py = "list" THEN Concat(PartTexts(content.items))
    ELSE <<>>

\* the result_text of a tool-result block's content
ResultText(content) ==
    IF content.py = "str" THEN content.s
    ELSE IF content.py = "list" THEN JoinNL(PartTexts(content.items))
    ELSE <<>>

\* BlockEvents whose tool-result event carries a tool name
BlockEventsNamedResult(self, block) ==
    IF HasAttr(block, "text")
    THEN <<TextEvent("text_delta", self.agent_name, self.session_id, block.text)>>
    ELSE IF HasAttr(block, "name") /\ HasAttr(block, "input")
    THEN <<ToolEvent("tool_start", self.agent_name, self.session_id,
                     Get(block, "name", ""), Get(block, "input", EmptyDict),
                     <<>>, Get(block, "id", ""))>>
    ELSE IF HasAttr(block, "content") /\ HasAttr(block, "tool_use_id")
    THEN <<ToolEvent("tool_result", self.agent_name, self.session_id,
                     "Read", EmptyDict, ResultText(Get(block, "content", PyStr(<<>>))),
                     Get(block, "tool_use_id", ""))>>
    ELSE IF HasAttr(block, "thinking")
    THEN <<ThinkingEvent("thinking", self.agent_name, self.session_id,
                         Get(block, "thinking", <<>>))>>
    ELSE <<>>

\* one iteration of the loop over message.content
BlockEvents(self, block) ==
    IF HasAttr(block, "text")
    THEN <<TextEvent("text_delta", self.agent_name, self.session_id, block.text)>>
    ELSE IF HasAttr(block, "name") /\ HasAttr(block, "input")
    THEN <<ToolEvent("tool_start", self.agent_name, self.session_id,
                     Get(block, "name", ""), Get(block, "input", EmptyDict),
                     <<>>, Get(block, "id", ""))>>
    ELSE IF HasAttr(block, "content") /\ HasAttr(block, "tool_use_id")
    THEN <<ToolEvent("tool_result", self.agent_name, self.session_id,
                     "", EmptyDict, ResultText(Get(block, "content", PyStr(<<>>))),
                     Get(block, "tool_use_id", ""))>>
    ELSE IF HasAttr(block, "thinking")
    THEN <<ThinkingEvent("thinking", self.agent_name, self.session_id,
                         Get(block, "thinking", <<>>))>>
    ELSE <<>>

\* ContentEvents skipping a block equal to the block before it
RECURSIVE ContentEventsDeduplicated(_, _)
ContentEventsDeduplicated(self, content) ==
    IF content = <<>> THEN <<>>
    ELSE BlockEvents(self, Head(content))
         \o ContentEventsDeduplicated(self,
                IF Len(content) >= 2 /\ content[2] = content[1]
                THEN Tail(Tail(content)) ELSE Tail(content))

RECURSIVE ContentEvents(_, _)
ContentEvents(self, content) ==
    IF content = <<>> THEN <<>>
    ELSE BlockEvents(self, Head(content)) \o ContentEvents(self, Tail(content))

\* _process_assistant
ProcessAssistant(self, message) ==
    Outcome(ContentEvents(self, message.content), FALSE)

\* ProcessResult emitting for every subtype
ProcessResultAnySubtype(self, message) ==
    Outcome(<<TextEvent("text_delta", self.agent_name, self.session_id,
                        message.result)>>, FALSE)

\* _process_result
ProcessResult(self, message) ==
    IF message.subtype = "success"
    THEN Outcome(<<TextEvent("text_delta", self.agent_name, self.session_id,
                             message.result)>>, FALSE)
    ELSE Outcome(<<>>, FALSE)

\* _process_stream_event, the content_block_delta branch
ProcessBlockDelta(self, raw) ==
    LET delta_ == Get(raw, "delta", PyDict(EmptyDict)) IN
    IF delta_.py # "dict"
    THEN Outcome(<<>>, TRUE)      \* delta.get: AttributeError
    ELSE
        LET delta_type == Get(delta_.d, "type", "") IN
        IF delta_type = "text_delta"
        THEN Outcome(<<TextEvent("text_delta", self.agent_name, self.session_id,
                                 Get(delta_.d, "text", <<>>))>>, FALSE)
        ELSE IF delta_type = "thinking_delta"
        THEN Outcome(<<ThinkingEvent("thinking", self.agent_name, self.session_id,
                                     Get(delta_.d, "thinking", <<>>))>>, FALSE)
        ELSE IF delta_type = "input_json_delta"
        THEN Outcome(<<StreamEvent("progress", self.agent_name, self.session_id,
                                   delta_.d)>>, FALSE)
        ELSE Outcome(<<>>, FALSE)

\* ProcessBlockStart announcing a block of any type
ProcessBlockStartAnyType(self, raw) ==
    LET block == Get(raw, "content_block", PyDict(EmptyDict)) IN
    IF block.py # "dict"
    THEN Outcome(<<>>, TRUE)
    ELSE Outcome(<<ToolEvent("tool_start", self.agent_name, self.session_id,
                             Get(block.d, "name", ""), EmptyDict, <<>>,
                             Get(block.d, "id", ""))>>, FALSE)

\* _process_stream_event, the content_block_start branch
ProcessBlockStart(self, raw) ==
    LET block == Get(raw, "content_block", PyDict(EmptyDict)) IN
    IF block.py # "dict"
    THEN Outcome(<<>>, TRUE)      \* block.get: AttributeError
    ELSE IF Get(block.d, "type", "<None>") = "tool_use"
    THEN Outcome(<<ToolEvent("tool_start", self.agent_name, self.session_id,
                             Get(block.d, "name", ""), EmptyDict, <<>>,
                             Get(block.d, "id", ""))>>, FALSE)
    ELSE Outcome(<<>>, FALSE)

\* _process_stream_event
ProcessStreamEvent(self, message) ==
    LET raw == Get(message, "event", PyDict(EmptyDict)) IN
    IF raw.py # "dict"
    THEN Outcome(<<>>, FALSE)
    ELSE
        LET event_type == Get(raw.d, "type", "") IN
        IF event_type = "content_block_delta" THEN ProcessBlockDelta(self, raw.d)
        ELSE IF event_type = "content_block_start" THEN ProcessBlockStart(self, raw.d)
        ELSE Outcome(<<>>, FALSE)

\* process
Process(self, message) ==
    IF message.cls = "SystemMessage" THEN ProcessSystem(self, message)
    ELSE IF message.cls = "AssistantMessage" THEN ProcessAssistant(self, message)
    ELSE IF message.cls = "ResultMessage" THEN ProcessResult(self, message)
    ELSE IF HasAttr(message, "event") THEN ProcessStreamEvent(self, message)
    ELSE Outcome(<<>>, FALSE)

----------------------------------------------------------------------------
(* agents/coder.py: the body of the loop over the runtime's messages       *)

RECURSIVE BlockTexts(_)
\* full: the blocks' texts that are not None, concatenated
BlockTexts(content) ==
    IF content = <<>> THEN <<>>
    ELSE (IF Get(Head(content), "text", NoneStr) # NoneStr
          THEN Head(content).text ELSE <<>>)
         \o BlockTexts(Tail(content))

\* ResetCursor without the reset: the stale cursor is kept
ResetCursorStale(prev, full) == prev

\* the cursor after the reset test
ResetCursor(prev, full) == IF Len(full) < prev THEN 0 ELSE prev

\* the cursor discipline applied to one assistant message
CursorStep(prev, res, dlt, full) ==
    LET p0 == ResetCursor(prev, full) IN
    IF Len(full) > p0
    THEN [prev_text_len |-> Len(full),
          delta |-> SubSeq(full, p0 + 1, Len(full)),
          result_text |-> full]
    ELSE [prev_text_len |-> p0, delta |-> dlt, result_text |-> res]

\* the loop's locals after one message whose process call returned
LoopStep(prev, res, dlt, msg) ==
    LET c == IF msg.cls = "AssistantMessage"
             THEN CursorStep(prev, res, dlt, BlockTexts(msg.content))
             ELSE [prev_text_len |-> prev, delta |-> dlt, result_text |-> res]
        is_success == msg.cls = "ResultMessage" /\ msg.subtype = "success"
    IN  IF is_success THEN [c EXCEPT !.result_text = OrEmpty(msg.result)] ELSE c

----------------------------------------------------------------------------
(* The runtime's messages (claude_agent_sdk), drawn from small sets        *)

Texts == {<<"a">>, <<"a", "b">>}

Thoughts == {<<"x">>, <<"x", "y">>}

ToolNames == {"Read", "Bash"}

ToolIds == {"t1", "t2"}

ToolInputs == {EmptyDict, [path |-> "f"]}

TextBlocks == [text : Texts]

ThinkingBlocks == [thinking : Thoughts, signature : {"s"}]

ToolUseBlocks == [id : ToolIds, name : ToolNames, input : ToolInputs]

\* the parts of a tool result: with a text attribute, or without one
Parts == [text : {<<"a">>, <<"b">>}] \cup {[source |-> "img"]}

\* tool-result contents that are no sequence: None and strings
PlainContents == {PyNone, PyStr(<<"a">>), PyStr(<<"a", NL, "b">>)}

\* tool-result contents that are sequences of parts
ListContents == {PyList(xs) : xs \in SeqsUpTo(Parts, MaxParts)}

ToolResultContents == PlainContents \cup ListContents

ToolResultBlocks ==
    [tool_use_id : ToolIds, content : PlainContents]
        \cup [tool_use_id : {"t1"}, content : ListContents]

Blocks == TextBlocks \cup ThinkingBlocks \cup ToolUseBlocks \cup ToolResultBlocks

AssistantMessage(content) == [cls |-> "AssistantMessage", content |-> content]

ResultMessages ==
    [cls : {"ResultMessage"}, subtype : {"success", "error_during_execution"},
     result : {NoneStr, <<"a">>, <<"b", "a">>}]

SystemMessages ==
    [cls : {"SystemMessage"}, subtype : {"init", "compact_boundary"},
     data : {EmptyDict, [model |-> "m"]}]

DeltaTypes == {"text_delta", "thinking_delta", "input_json_delta", "signature_delta"}

DeltaDicts ==
    {EmptyDict} \cup [type : DeltaTypes] \cup [text : {<<"a">>}]
        \cup [type : DeltaTypes, text : {<<"a">>, <<"b">>}]
        \cup [type : DeltaTypes, thinking : {<<"x">>}]
        \cup [type : DeltaTypes, partial_json : {<<"{">>}]

ContentBlockDicts ==
    {EmptyDict} \cup [type : {"tool_use", "text"}]
        \cup [type : {"tool_use", "text"}, name : ToolNames]
        \cup [type : {"tool_use", "text"}, id : ToolIds]
        \cup [type : {"tool_use", "text"}, name : ToolNames, id : ToolIds]
        \cup [name : ToolNames, id : ToolIds]

\* values that are not mappings
NonMappings == {PyNone, PyStr(<<"a">>), PyList(<<>>)}

EventTypes == {"content_block_delta", "content_block_start", "message_stop"}

RawEvents ==
    {EmptyDict} \cup [type : EventTypes]
        \cup [type : EventTypes, delta : NonMappings \cup {PyDict(d) : d \in DeltaDicts}]
        \cup [type : EventTypes,
              content_block : NonMappings \cup {PyDict(d) : d \in ContentBlockDicts}]
        \cup [delta : {PyDict(d) : d \in DeltaDicts}]

\* the runtime's partial-stream messages: objects with an event attribute
StreamMessages == [cls : {"StreamEvent"}, event : {PyDict(r) : r \in RawEvents}]

\* objects of no known class, without and with an event attribute
OtherMessages ==
    {[cls |-> "UserMessage"]} \cup [cls : {"Mock"}, event : NonMappings]

\* the arguments of a single process call
ProcessInputs ==
    {AssistantMessage(c) : c \in SeqsUpTo(Blocks, MaxBlocks)}
        \cup ResultMessages \cup SystemMessages \cup StreamMessages \cup OtherMessages

\* the partial-stream messages of one turn: text and thinking deltas, and
\* one whose delta is no mapping
TurnDeltas ==
    {[cls |-> "StreamEvent",
      event |-> PyDict([type |-> "content_block_delta", delta |-> d])] :
        d \in {PyDict(x) : x \in [type : {"text_delta"}, text : {<<"a">>, <<"b">>}]
                                 \cup [type : {"thinking_delta"}, thinking : {<<"x">>}]}
              \cup {PyNone}}

\* the text and thinking blocks of one turn's assistant messages
TurnBlocks == TextBlocks \cup [thinking : {<<"x">>}, signature : {"s"}]

\* the messages a stage run receives
TurnMessages ==
    {AssistantMessage(c) : c \in SeqsUpTo(TurnBlocks, MaxBlocks)}
        \cup ResultMessages \cup TurnDeltas

----------------------------------------------------------------------------
(* stream_handler.py: StreamHandler *)

\* the callbacks a client registers, and the event types they are registered for
Callbacks == {"c1", "c2"}

SubKinds == {"text_delta", "tool_start"}

\* the events handed to emit
EmitEvents ==
    {TextEvent("text_delta", "coder", "", <<"a">>),
     ToolEvent("tool_start", "coder", "", "Read", EmptyDict, <<>>, "t1")}

NoEvent == StreamEventBase("None", "none", "", "")

\* StreamHandler(): no callbacks, and no emit call yet
EmIdle ==
    [pc |-> "idle", event |-> NoEvent, i |-> 0, awaiting |-> FALSE,
     at_call |-> [global_callbacks |-> <<>>, callbacks |-> EmptyDict],
     reg_during |-> FALSE, reg_after |-> FALSE]

InitHandler ==
    /\ global_callbacks = <<>>
    /\ callbacks = EmptyDict
    /\ em = EmIdle
    /\ delivered = <<>>
    /\ n_regs = 0
    /\ n_emits = 0

EmitActive(frame) == frame.pc \in {"global", "kind"}

\* on and on_all are plain calls: between two emit calls, or while a callback
\* of the emit in progress is awaited (by the callback or by another task)
CanRegister == n_regs < MaxRegs /\ (EmitActive(em) => em.awaiting)

Registered(frame) ==
    [frame EXCEPT !.reg_during = @ \/ EmitActive(frame),
                  !.reg_after = @ \/ frame.pc \in {"returned", "raised"}]

\* self._callbacks[event_type].append(callback) on a defaultdict(list)
OnAppend(cbs, event_type, callback) ==
    [k \in DOMAIN cbs \cup {event_type} |->
        IF k = event_type
        THEN Append(Get(cbs, k, <<>>), callback)
        ELSE cbs[k]]

\* a handler that keeps the last event and replays it to a late subscriber
OnReplaying(event_type, callback) ==
    /\ CanRegister
    /\ callbacks' = OnAppend(callbacks, event_type, callback)
    /\ em' = Registered(em)
    /\ n_regs' = n_regs + 1
    /\ delivered' = IF em.pc = "returned" /\ em.event.type = event_type
                    THEN Append(delivered,
                                [cb |-> callback, phase |-> "kind", event |-> em.event,
                                 n |-> n_emits, outcome |-> "done"])
                    ELSE delivered
    /\ UNCHANGED <<global_callbacks, n_emits>>
    /\ UNCHANGED <<tvars, ovars, uvars>>

\* StreamHandler.on
On(event_type, callback) ==
    /\ CanRegister
    /\ callbacks' = OnAppend(callbacks, event_type, callback)
    /\ em' = Registered(em)
    /\ n_regs' = n_regs + 1
    /\ UNCHANGED <<global_callbacks, delivered, n_emits>>
    /\ UNCHANGED <<tvars, ovars, uvars>>

\* StreamHandler.on_all
OnAll(callback) ==
    /\ CanRegister
    /\ global_callbacks' = Append(global_callbacks, callback)
    /\ em' = Registered(em)
    /\ n_regs' = n_regs + 1
    /\ UNCHANGED <<callbacks, delivered, n_emits>>
    /\ UNCHANGED <<tvars, ovars, uvars>>

\* the call emit(event): the frame before the first loop
Emit(event) ==
    /\ ~EmitActive(em)
    /\ n_emits < MaxEmits
    /\ em' = [pc |-> "global", event |-> event, i |-> 0, awaiting |-> FALSE,
              at_call |-> [global_callbacks |-> global_callbacks,
                           callbacks |-> callbacks],
              reg_during |-> FALSE, reg_after |-> FALSE]
    /\ delivered' = <<>>
    /\ n_emits' = n_emits + 1
    /\ UNCHANGED <<global_callbacks, callbacks, n_regs>>
    /\ UNCHANGED <<tvars, ovars, uvars>>

\* a second loop that runs over the callbacks of every kind
EmitNextAnyKind(frame, g, cbs) ==
    IF frame.pc = "global" /\ frame.i < Len(g)
    THEN [pc |-> "global", i |-> frame.i + 1, cb |-> g[frame.i + 1]]
    ELSE LET l == Get(cbs, "text_delta", <<>>) \o Get(cbs, "tool_start", <<>>)
             j == IF frame.pc = "global" THEN 0 ELSE frame.i
         IN  IF j < Len(l)
             THEN [pc |-> "kind", i |-> j + 1, cb |-> l[j + 1]]
             ELSE [pc |-> "returned", i |-> j, cb |-> ""]

\* the two loops taken in the wrong order within a list (last registered first)
EmitNextReversed(frame, g, cbs) ==
    IF frame.pc = "global" /\ frame.i < Len(g)
    THEN [pc |-> "global", i |-> frame.i + 1, cb |-> g[Len(g) - frame.i]]
    ELSE LET l == Get(cbs, frame.event.type, <<>>)
             j == IF frame.pc = "global" THEN 0 ELSE frame.i
         IN  IF j < Len(l)
             THEN [pc |-> "kind", i |-> j + 1, cb |-> l[Len(l) - j]]
             ELSE [pc |-> "returned", i |-> j, cb |-> ""]

\* the next iteration of emit's two for loops. A for loop over a list reads the
\* list as it is at each iteration; self._callbacks.get(event.type, []) is
\* evaluated when the first loop is exhausted.
EmitNext(frame, g, cbs) ==
    IF frame.pc = "global" /\ frame.i < Len(g)
    THEN [pc |-> "global", i |-> frame.i + 1, cb |-> g[frame.i + 1]]
    ELSE LET l == Get(cbs, frame.event.type, <<>>)
             j == IF frame.pc = "global" THEN 0 ELSE frame.i
         IN  IF j < Len(l)
             THEN [pc |-> "kind", i |-> j + 1, cb |-> l[j + 1]]
             ELSE [pc |-> "returned", i |-> j, cb |-> ""]

\* await cb(event): the callback starts
Invoke ==
    /\ EmitActive(em)
    /\ ~em.awaiting
    /\ LET nxt == EmitNext(em, global_callbacks, callbacks)
       IN  /\ nxt.pc # "returned"
           /\ em' = [em EXCEPT !.pc = nxt.pc, !.i = nxt.i, !.awaiting = TRUE]
           /\ delivered' = Append(delivered,
                                  [cb |-> nxt.cb, phase |-> nxt.pc, event |-> em.event,
                                   n |-> n_emits, outcome |-> "running"])
    /\ UNCHANGED <<global_callbacks, callbacks, n_regs, n_emits>>
    /\ UNCHANGED <<tvars, ovars, uvars>>

\* await cb(event): the callback completes
CallbackDone ==
    /\ EmitActive(em)
    /\ em.awaiting
    /\ em' = [em EXCEPT !.awaiting = FALSE]
    /\ delivered' = [delivered EXCEPT ![Len(delivered)].outcome = "done"]
    /\ UNCHANGED <<global_callbacks, callbacks, n_regs, n_emits>>
    /\ UNCHANGED <<tvars, ovars, uvars>>

\* a failing callback that is caught and skipped
CallbackRaiseIsolated ==
    /\ EmitActive(em)
    /\ em.awaiting
    /\ em' = [em EXCEPT !.awaiting = FALSE]
    /\ delivered' = [delivered EXCEPT ![Len(delivered)].outcome = "raised"]
    /\ UNCHANGED <<global_callbacks, callbacks, n_regs, n_emits>>
    /\ UNCHANGED <<tvars, ovars, uvars>>

\* await cb(event): the callback raises; emit has no try, so the exception
\* leaves emit
CallbackRaise ==
    /\ EmitActive(em)
    /\ em.awaiting
    /\ em' = [em EXCEPT !.pc = "raised", !.awaiting = FALSE]
    /\ delivered' = [delivered EXCEPT ![Len(delivered)].outcome = "raised"]
    /\ UNCHANGED <<global_callbacks, callbacks, n_regs, n_emits>>
    /\ UNCHANGED <<tvars, ovars, uvars>>

\* both loops are exhausted: emit returns
EmitReturn ==
    /\ EmitActive(em)
    /\ ~em.awaiting
    /\ EmitNext(em, global_callbacks, callbacks).pc = "returned"
    /\ em' = [em EXCEPT !.pc = "returned"]
    /\ UNCHANGED <<global_callbacks, callbacks, delivered, n_regs, n_emits>>
    /\ UNCHANGED <<tvars, ovars, uvars>>

----------------------------------------------------------------------------
(* agents: the artifacts and the parsers of the stages' final text. The     *)
(* regular expression searches over the text are taken as given: a final   *)
(* text comes with what each search finds in it, and a JSON text with what *)
(* json.loads makes of it.                                                 *)

\* a JSON text: valid or not, and the value json.loads returns for it
JsonText(value) == [match |-> TRUE, valid |-> TRUE, value |-> value]

InvalidJson == [match |-> TRUE, valid |-> FALSE, value |-> PyNone]

\* re.search found nothing
NoMatch == [match |-> FALSE, valid |-> FALSE, value |-> PyNone]

\* a final text: its characters, group 1 of the json code fence, the outermost
\* brace span, the whole text as a JSON text, which of the words error and
\* success occur in it, the names after Created: and Modified:, the "## n."
\* part headers with their bodies and the "# Implementation TODO" section
Response(text, fence, braces, whole) ==
    [text |-> text, fence |-> fence, braces |-> braces, whole |-> whole,
     words |-> {}, created |-> <<>>, modified |-> <<>>,
     headers |-> <<>>, todo |-> <<>>]

\* a call that returns v, and a call that raises e
Returns(v) == [raised |-> FALSE, value |-> v, exc |-> ""]

Raises(e) == [raised |-> TRUE, value |-> PyNone, exc |-> e]

\* s[:n]
Take(s, n) == SubSeq(s, 1, IF Len(s) < n THEN Len(s) ELSE n)

\* s.strip() is empty
Blank(s) == \A j \in 1..Len(s) : s[j] \in {" ", NL}

ResearchResult(original_requirements, requirements_analysis, research_agenda, findings, technical_context, recommendations, notes) ==
    [cls |-> "ResearchResult",
     original_requirements |-> original_requirements,
     requirements_analysis |-> requirements_analysis,
     research_agenda |-> research_agenda, findings |-> findings,
     technical_context |-> technical_context,
     recommendations |-> recommendations, notes |-> notes]

Plan(task_description, requirements, files_to_create, files_to_modify, implementation_steps, dependencies, notes) ==
    [cls |-> "Plan", task_description |-> task_description,
     requirements |-> requirements, files_to_create |-> files_to_create,
     files_to_modify |-> files_to_modify,
     implementation_steps |-> implementation_steps,
     dependencies |-> dependencies, notes |-> notes]

CodeResult(files_created, files_modified, summary, success, errors) ==
    [cls |-> "CodeResult", files_created |-> files_created,
     files_modified |-> files_modified, summary |-> summary,
     success |-> success, errors |-> errors]

ReviewResult(findings, summary, passed) ==
    [cls |-> "ReviewResult", findings |-> findings, summary |-> summary,
     passed |-> passed]

DetailPlan(parts, todo_content) ==
    [cls |-> "DetailPlan", parts |-> parts, todo_content |-> todo_content]

\* the JSON text the research and plan parsers hand to json.loads
JsonStr(response) ==
    IF response.fence.match THEN response.fence ELSE response.braces

\* ResearcherAgent.parse_research_response: data.get on a value that is no
\* dict raises AttributeError, which the except json.JSONDecodeError clause
\* does not catch
ParseResearchResponse(response) ==
    LET j == JsonStr(response)
    IN  IF ~j.match
        THEN Returns(ResearchResult(PyStr(Take(response.text, 1000)),
                 PyList(<<>>), PyList(<<>>), PyList(<<>>), PyList(<<>>), PyList(<<>>),
                 PyStr(<<"Could not parse structured research from response.">>)))
        ELSE IF ~j.valid
        THEN Returns(ResearchResult(PyStr(Take(response.text, 1000)),
                 PyList(<<>>), PyList(<<>>), PyList(<<>>), PyList(<<>>), PyList(<<>>),
                 PyStr(<<"Could not parse JSON from response.">>)))
        ELSE IF j.value.py # "dict"
        THEN Raises("AttributeError")
        ELSE Returns(ResearchResult(
                 Get(j.value.d, "original_requirements", PyStr(<<>>)),
                 Get(j.value.d, "requirements_analysis", PyList(<<>>)),
                 Get(j.value.d, "research_agenda", PyList(<<>>)),
                 Get(j.value.d, "findings", PyList(<<>>)),
                 Get(j.value.d, "technical_context", PyList(<<>>)),
                 Get(j.value.d, "recommendations", PyList(<<>>)),
                 Get(j.value.d, "notes", PyStr(<<>>))))

\* PlannerAgent.parse_plan_response
ParsePlanResponse(response) ==
    LET j == JsonStr(response)
    IN  IF ~j.match
        THEN Returns(Plan(PyStr(Take(response.text, 500)),
                 PyList(<<>>), PyList(<<>>), PyList(<<>>), PyList(<<>>), PyList(<<>>),
                 PyStr(<<"Could not parse structured plan from response.">>)))
        ELSE IF ~j.valid
        THEN Returns(Plan(PyStr(Take(response.text, 500)),
                 PyList(<<>>), PyList(<<>>), PyList(<<>>), PyList(<<>>), PyList(<<>>),
                 PyStr(<<"Could not parse JSON from response.">>)))
        ELSE IF j.value.py # "dict"
        THEN Raises("AttributeError")
        ELSE Returns(Plan(
                 Get(j.value.d, "task_description", PyStr(<<>>)),
                 Get(j.value.d, "requirements", PyList(<<>>)),
                 Get(j.value.d, "files_to_create", PyList(<<>>)),
                 Get(j.value.d, "files_to_modify", PyList(<<>>)),
                 Get(j.value.d, "implementation_steps", PyList(<<>>)),
                 Get(j.value.d, "dependencies", PyList(<<>>)),
                 Get(j.value.d, "notes", PyStr(<<>>))))

\* CoderAgent._parse_result: only the fence is searched; invalid JSON falls
\* through to the text heuristics
ParseResult(response) ==
    LET j == response.fence
    IN  IF j.match /\ j.valid
        THEN IF j.value.py # "dict"
             THEN Raises("AttributeError")
             ELSE Returns(CodeResult(
                      Get(j.value.d, "files_created", PyList(<<>>)),
                      Get(j.value.d, "files_modified", PyList(<<>>)),
                      Get(j.value.d, "summary", PyStr(<<>>)),
                      Get(j.value.d, "success", TRUE),
                      Get(j.value.d, "errors", PyList(<<>>))))
        ELSE Returns(CodeResult(
                 PyList(response.created), PyList(response.modified),
                 PyStr(Take(response.text, 1000)),
                 ("error" \notin response.words) \/ ("success" \in response.words),
                 PyList(<<>>)))

\* for item in data.get("findings", []): item.get(...) raises
FindingsRaise(findings) ==
    IF findings.py = "list"
    THEN \E j \in 1..Len(findings.items) : findings.items[j].py # "dict"
    ELSE IF findings.py = "str" THEN findings.s # <<>>
    ELSE IF findings.py = "dict" THEN DOMAIN findings.d # {}
    ELSE TRUE

ReviewFinding(item) ==
    [category |-> Get(item.d, "category", PyStr(<<>>)),
     severity |-> Get(item.d, "severity", PyStr(<<"i", "n", "f", "o">>)),
     file |-> Get(item.d, "file", PyStr(<<>>)),
     line |-> Get(item.d, "line", PyNone),
     description |-> Get(item.d, "description", PyStr(<<>>)),
     suggestion |-> Get(item.d, "suggestion", PyStr(<<>>))]

\* reviewer._parse_review
ParseReview(response) ==
    IF response.text = <<>> \/ Blank(response.text)
    THEN Returns(PyNone)
    ELSE LET raw == IF response.fence.match THEN response.fence ELSE response.whole
         IN  IF ~raw.valid THEN Returns(PyNone)
             ELSE IF raw.value.py # "dict" THEN Raises("AttributeError")
             ELSE LET findings == Get(raw.value.d, "findings", PyList(<<>>))
                  IN  IF FindingsRaise(findings)
                      THEN Raises(IF findings.py \in {"list", "str", "dict"}
                                  THEN "AttributeError" ELSE "TypeError")
                      ELSE Returns(ReviewResult(
                               IF findings.py = "list"
                               THEN [n \in 1..Len(findings.items) |->
                                        ReviewFinding(findings.items[n])]
                               ELSE <<>>,
                               Get(raw.value.d, "summary", PyStr(<<>>)),
                               Get(raw.value.d, "passed", TRUE)))

\* detail_planner._parse_detail_plan
ParseDetailPlan(response) ==
    IF response.text = <<>> \/ Blank(response.text) \/ response.headers = <<>>
    THEN Returns(PyNone)
    ELSE Returns(DetailPlan(response.headers, response.todo))

\* the parsers by name
Parsers ==
    {"parse_research_response", "parse_plan_response", "_parse_result",
     "_parse_review", "_parse_detail_plan"}

Parse(fn, response) ==
    IF fn = "parse_research_response" THEN ParseResearchResponse(response)
    ELSE IF fn = "parse_plan_response" THEN ParsePlanResponse(response)
    ELSE IF fn = "_parse_result" THEN ParseResult(response)
    ELSE IF fn = "_parse_review" THEN ParseReview(response)
    ELSE ParseDetailPlan(response)

\* JSON values a model's answer can hold
FullObject ==
    PyDict([summary |-> PyStr(<<"s">>), notes |-> PyStr(<<"n">>),
            original_requirements |-> PyStr(<<"o">>),
            task_description |-> PyStr(<<"t">>),
            requirements |-> PyList(<<PyStr(<<"r">>)>>),
            findings |-> PyList(<<PyDict([topic |-> PyStr(<<"f">>)])>>),
            success |-> FALSE, passed |-> FALSE])

JsonObjects ==
    {PyDict(EmptyDict),
     FullObject,
     PyDict([findings |-> PyList(<<PyStr(<<"f">>)>>)]),
     PyDict([findings |-> PyStr(<<"f">>)]),
     PyDict([findings |-> PyNone])}

JsonNonObjects == {PyList(<<>>), PyStr(<<"s">>), PyNone}

JsonTexts ==
    {JsonText(v) : v \in JsonObjects \cup JsonNonObjects} \cup {InvalidJson}

\* the final text of a stage whose stream ended without any text
EmptyResponse == Response(<<>>, NoMatch, NoMatch, InvalidJson)

\* prose without any payload, with the words and names the coder's
\* heuristics look for
ProseResponses ==
    {[Response(t, NoMatch, NoMatch, InvalidJson)
          EXCEPT !.words = w, !.created = c, !.headers = h, !.todo = td] :
        t \in {<<" ">>, <<"x">>, <<"x", "y">>},
        w \in SUBSET {"error", "success"},
        c \in {<<>>, <<PyStr(<<"f">>)>>},
        h \in {<<>>, <<[sequence |-> 1, title |-> <<"t">>, content |-> <<"c">>]>>},
        td \in {<<>>, <<"d">>}}

\* a text that is one JSON text, a text with a fenced JSON text, and a text
\* with braces around something that is an object or is no JSON
PayloadResponses ==
    {Response(<<"j">>, NoMatch, IF j.valid /\ j.value.py = "dict" THEN j ELSE NoMatch, j) :
        j \in JsonTexts}
    \cup {Response(<<"f", "j", "f">>, j, NoMatch, InvalidJson) : j \in JsonTexts}
    \cup {Response(<<"x", "{", "}">>, NoMatch, j, InvalidJson) :
            j \in {JsonText(v) : v \in JsonObjects} \cup {InvalidJson}}

Responses == {EmptyResponse} \cup ProseResponses \cup PayloadResponses

----------------------------------------------------------------------------
(* orchestrator.py: load_mcp_config and _expand_env_vars. The file          *)
(* .mcp.json is missing, cannot be opened, cannot be decoded as text, or   *)
(* holds a JSON text; os.environ is a function from names to values.       *)

\* characters of one env or headers value
MaxChars == 6

\* sub in s, for two strings
IsSubstring(sub, s) ==
    \E i \in 1..(Len(s) - Len(sub) + 1) : SubSeq(s, i, i + Len(sub) - 1) = sub

\* the position of the first "}" of s at or after position from, or 0
FirstClose(s, from) ==
    IF \E j \in from..Len(s) : s[j] = "}"
    THEN CHOOSE j \in from..Len(s) :
             s[j] = "}" /\ \A i \in from..(j - 1) : s[i] # "}"
    ELSE 0

\* the pattern \$\{([^}]+)\} matches at the head of s
MatchesAtHead(s) ==
    /\ Len(s) >= 4
    /\ s[1] = "$"
    /\ s[2] = "{"
    /\ s[3] # "}"
    /\ FirstClose(s, 4) # 0

\* a substitution that scans the replacement text again
RECURSIVE ReSubRescanning(_, _)
ReSubRescanning(s, environ) ==
    IF s = <<>> THEN <<>>
    ELSE IF MatchesAtHead(s)
    THEN LET j == FirstClose(s, 4)
             v == Get(environ, SubSeq(s, 3, j - 1), <<>>)
         IN  ReSubRescanning(v, [n \in {} |-> <<>>])
             \o ReSubRescanning(SubSeq(s, j + 1, Len(s)), environ)
    ELSE <<s[1]>> \o ReSubRescanning(Tail(s), environ)

\* re.sub(pattern, lambda m: os.environ.get(m.group(1), ""), s): the leftmost
\* matches, not overlapping, each replaced; the replacement is not scanned
RECURSIVE ReSub(_, _)
ReSub(s, environ) ==
    IF s = <<>> THEN <<>>
    ELSE IF MatchesAtHead(s)
    THEN LET j == FirstClose(s, 4)
         IN  Get(environ, SubSeq(s, 3, j - 1), <<>>)
             \o ReSub(SubSeq(s, j + 1, Len(s)), environ)
    ELSE <<s[1]>> \o ReSub(Tail(s), environ)

\* _expand_env_vars
ExpandEnvVars(value, environ) ==
    IF value.py = "str" /\ IsSubstring(<<"$", "{">>, value.s)
    THEN PyStr(ReSub(value.s, environ))
    ELSE value

\* "env" in srv, "headers" in srv
InEntry(key, srv) ==
    IF srv.py = "dict" THEN PyStr(key) \in {PyStr(k) : k \in DOMAIN srv.d}
    ELSE IF srv.py = "str" THEN IsSubstring(key, srv.s)
    ELSE \E j \in 1..Len(srv.items) : srv.items[j] = PyStr(key)

EnvKey == <<"e", "n", "v">>

HeadersKey == <<"h", "e", "a", "d", "e", "r", "s">>

\* the key of a server entry as the name of one of its fields
FieldOf(key) == IF key = EnvKey THEN "env" ELSE "headers"

\* the body of the loop over mcp_servers.items() for one entry: whether it
\* raises, and the entry afterwards
ExpandEntry(srv, environ) ==
    IF srv.py \notin {"dict", "str", "list"}
    THEN Raises("TypeError")
    ELSE IF srv.py # "dict"
    THEN IF InEntry(EnvKey, srv) \/ InEntry(HeadersKey, srv)
         THEN Raises("TypeError")
         ELSE Returns(srv)
    ELSE IF \E f \in {"env", "headers"} : f \in DOMAIN srv.d /\ srv.d[f].py # "dict"
    THEN Raises("AttributeError")
    ELSE Returns(PyDict([f \in DOMAIN srv.d |->
             IF f \in {"env", "headers"}
             THEN PyDict([k \in DOMAIN srv.d[f].d |->
                             ExpandEnvVars(srv.d[f].d[k], environ)])
             ELSE srv.d[f]]))

\* what load_mcp_config does: the servers it returns or the exception it
\* raises, and whether it printed the warning
Loaded(servers, printed) ==
    [raised |-> FALSE, value |-> servers, exc |-> "", printed |-> printed]

LoadRaises(e) == [raised |-> TRUE, value |-> PyNone, exc |-> e, printed |-> FALSE]

\* load_mcp_config: only json.JSONDecodeError and OSError are caught
LoadMcpConfig(input) ==
    IF input.file = "missing" THEN Loaded(EmptyDict, FALSE)
    ELSE IF input.file = "unreadable" THEN Loaded(EmptyDict, TRUE)
    ELSE IF input.file = "undecodable" THEN LoadRaises("UnicodeDecodeError")
    ELSE IF ~input.json.valid THEN Loaded(EmptyDict, TRUE)
    ELSE IF input.json.value.py # "dict" THEN LoadRaises("AttributeError")
    ELSE LET mcp_servers == Get(input.json.value.d, "mcpServers", PyDict(EmptyDict))
         IN  IF mcp_servers.py # "dict" THEN LoadRaises("AttributeError")
             ELSE IF \E n \in DOMAIN mcp_servers.d :
                        ExpandEntry(mcp_servers.d[n], input.environ).raised
             THEN LoadRaises(
                      ExpandEntry(mcp_servers.d[
                          CHOOSE n \in DOMAIN mcp_servers.d :
                              ExpandEntry(mcp_servers.d[n], input.environ).raised],
                          input.environ).exc)
             ELSE Loaded([n \in DOMAIN mcp_servers.d |->
                            ExpandEntry(mcp_servers.d[n], input.environ).value],
                         FALSE)

\* the characters of the values, and os.environ: A unset, or A set to a text
\* that itself holds a token
Chars == {"$", "{", "}", "A"}

Strings == UNION {[1..n -> Chars] : n \in 0..MaxChars}

Environs == {[n \in {} |-> <<>>], [n \in {<<"A">>} |-> <<"$", "{", "A", "}">>]}

\* the values of an env or headers map
EnvValues == {PyStr(v) : v \in Strings} \cup {PyNone, PyList(<<>>)}

\* well-formed server entries, with one or two values in env or in headers
GoodEntries ==
    {PyDict([command |-> PyStr(<<"$", "{", "A", "}">>)])}
    \cup {PyDict([command |-> PyStr(<<"c">>), env |-> PyDict([K |-> v])]) :
            v \in EnvValues}
    \cup {PyDict([headers |-> PyDict([K |-> v, L |-> PyStr(<<"$", "{", "A", "}">>)])]) :
            v \in {PyNone, PyStr(<<"A">>), PyStr(<<"$", "{", "}", "$", "{", "$", "}">>)}}

\* server entries that are no mapping or whose env or headers is no mapping
BadEntries ==
    {PyStr(<<"x">>), PyStr(EnvKey), PyStr(HeadersKey), PyNone,
     PyList(<<>>), PyList(<<PyStr(EnvKey)>>),
     PyDict([env |-> PyStr(<<"x">>)]), PyDict([headers |-> PyList(<<>>)]),
     PyDict([env |-> PyNone])}

ConfigJsonTexts ==
    {InvalidJson}
    \cup {JsonText(v) : v \in {PyList(<<>>), PyStr(<<"x">>), PyNone, PyDict(EmptyDict),
                              PyDict([mcpServers |-> PyList(<<>>)]),
                              PyDict([mcpServers |-> PyNone])}}
    \cup {JsonText(PyDict([mcpServers |-> PyDict([s |-> e])])) :
            e \in GoodEntries \cup BadEntries}
    \cup {JsonText(PyDict([mcpServers |-> PyDict([s |-> e, t |-> b])])) :
            e \in {PyDict([env |-> PyDict([K |-> PyStr(<<"$", "{", "A", "}">>)])])},
            b \in BadEntries}

ConfigInputs ==
    {[file |-> f, json |-> NoMatch, environ |-> en] :
        f \in {"missing", "unreadable", "undecodable"}, en \in Environs}
    \cup {[file |-> "text", json |-> j, environ |-> en] :
            j \in ConfigJsonTexts, en \in Environs}

----------------------------------------------------------------------------
(* orchestrator.py: Orchestrator.run_task. A path is the sequence of its    *)
(* components; the verbose printing is left out; fs holds only what this   *)
(* run_task wrote.                                                         *)

\* events one stage hands to the stream handler during its run
MaxStageEvents == 1

\* Path(p) / name and Path(p).parent
PathJoin(p, name) == Append(p, name)

Parent(p) == IF p = <<>> THEN <<>> ELSE SubSeq(p, 1, Len(p) - 1)

\* the truth value of an Optional[str]
Truthy(v) == v # PyNone /\ v.s # <<>>

\* Orchestrator.__init__
Orchestrator(working_dir, stream_handler) ==
    [working_dir |-> working_dir,
     research_dir |-> PathJoin(working_dir, "research"),
     plans_dir |-> PathJoin(working_dir, "plans"),
     stream_handler |-> stream_handler]

\* a description that takes an empty string for a given argument
BuildTaskDescNotNone(task, issue_url) ==
    IF issue_url # PyNone /\ task # PyNone
    THEN PyStr(<<"Implement GitHub issue: ">> \o issue_url.s
               \o <<"\n\nAdditional context: ">> \o task.s)
    ELSE IF issue_url # PyNone
    THEN PyStr(<<"Implement GitHub issue: ">> \o issue_url.s)
    ELSE IF task # PyNone THEN task
    ELSE PyNone

\* Orchestrator._build_task_desc
BuildTaskDesc(task, issue_url) ==
    IF Truthy(issue_url) /\ Truthy(task)
    THEN PyStr(<<"Implement GitHub issue: ">> \o issue_url.s
               \o <<"\n\nAdditional context: ">> \o task.s)
    ELSE IF Truthy(issue_url)
    THEN PyStr(<<"Implement GitHub issue: ">> \o issue_url.s)
    ELSE IF Truthy(task) THEN task
    ELSE PyNone

TaskResult(task, research_result, plan, code_result, success, error) ==
    [cls |-> "TaskResult", task |-> task, research_result |-> research_result,
     plan |-> plan, code_result |-> code_result, success |-> success,
     error |-> error]

NoResult == [cls |-> "None"]

\* the three stages in pipeline order, the phase label of each, the error
\* label of the first two and the directory each one's artifact is saved to
Stages == <<"researcher", "planner", "coder">>

PhaseOf(k) == <<"Research", "Planning", "Implementation">>[k]

FailureLabel(k) == <<"Researcher agent failed", "Planner agent failed">>[k]

SaveDir(o, k) == IF k = 1 THEN o.research_dir ELSE o.plans_dir

\* the directory a stage's prompt tells the model to read its input from:
\* the planner reads research_dir/research.md, the coder reads
\* Path(plans_dir).parent / "detail_plans" / TODO.md
PromptDir(o, k) ==
    IF k = 2 THEN o.research_dir
    ELSE IF k = 3 THEN PathJoin(Parent(o.plans_dir), "detail_plans")
    ELSE <<>>

\* the final texts of a stage: none at all, a fenced JSON object, and a fenced
\* JSON value that is no object
StageResponses ==
    {EmptyResponse,
     Response(<<"f", "j", "f">>, JsonText(FullObject), NoMatch, InvalidJson),
     Response(<<"f", "j", "f">>, JsonText(PyList(<<>>)), NoMatch, InvalidJson)}

\* return self.<parser>(result_text) inside the try of the stage's run: an
\* exception of the parser is caught by the except clause, which returns None
StageValue(k, response) ==
    LET r == Parse(<<"parse_research_response", "parse_plan_response",
                     "_parse_result">>[k], response)
    IN  IF r.raised THEN PyNone ELSE r.value

\* what a stage's run can return: None or its artifact
ResearchResults == {StageValue(1, r) : r \in StageResponses} \ {PyNone}

Plans == {StageValue(2, r) : r \in StageResponses} \ {PyNone}

CodeResults == {StageValue(3, r) : r \in StageResponses} \ {PyNone}

StageResults(k) ==
    {PyNone} \cup (IF k = 1 THEN ResearchResults
                   ELSE IF k = 2 THEN Plans ELSE CodeResults)

AllStageResults == UNION {StageResults(k) : k \in 1..3}

\* one entry of the trace
Did(op, who, event, dir, value, ok) ==
    [op |-> op, who |-> who, event |-> event, dir |-> dir, value |-> value, ok |-> ok]

\* the arguments of run_task
TaskArgs == {PyNone, PyStr(<<>>), PyStr(<<"t">>)}

UrlArgs == {PyNone, PyStr(<<>>), PyStr(<<"u">>)}

WorkingDirs == {<<>>, <<"w">>}

\* the frame of run_task at the call
RunTask(task, issue_url) ==
    [pc |-> "begin", k |-> 1, task |-> task, issue_url |-> issue_url,
     task_description |-> PyNone,
     out |-> [k \in 1..3 |-> PyNone],
     stage_events |-> 0,
     result |-> NoResult]

InitOrchestrator(dirs, handlers, tasks, urls) ==
    /\ orch \in {Orchestrator(d, h) : d \in dirs, h \in handlers}
    /\ run \in {RunTask(t, u) : t \in tasks, u \in urls}
    /\ fs = EmptyDict
    /\ trace = <<>>

\* run_task up to the first phase event
Begin ==
    /\ run.pc = "begin"
    /\ LET desc == BuildTaskDesc(run.task, run.issue_url)
       IN  IF desc = PyNone
           THEN run' = [run EXCEPT
                    !.pc = "returned",
                    !.result = TaskResult(PyStr(<<>>), PyNone, PyNone, PyNone, FALSE,
                                          PyStr("No task or issue URL provided"))]
           ELSE run' = [run EXCEPT !.pc = "phase_start", !.task_description = desc]
    /\ UNCHANGED <<orch, fs, trace>>
    /\ UNCHANGED <<tvars, dvars, uvars>>

\* a phase event that carries the name of the stage it brackets
EmitPhaseAsStage(type, next, ok) ==
    /\ IF orch.stream_handler
       THEN /\ trace' = Append(trace,
                   Did("emit", "orchestrator",
                       PhaseEvent(type, Stages[run.k], "", PhaseOf(run.k)),
                       <<>>, PyNone, ok))
            /\ run' = [run EXCEPT !.pc = IF ok THEN next ELSE "raised"]
       ELSE /\ ok
            /\ trace' = trace
            /\ run' = [run EXCEPT !.pc = next]
    /\ UNCHANGED <<orch, fs>>
    /\ UNCHANGED <<tvars, dvars, uvars>>

\* _emit_phase: nothing without a stream handler; with one, emit returns or a
\* subscriber's exception leaves emit, _emit_phase and run_task
EmitPhase(type, next, ok) ==
    /\ IF orch.stream_handler
       THEN /\ trace' = Append(trace,
                   Did("emit", "orchestrator",
                       PhaseEvent(type, "orchestrator", "", PhaseOf(run.k)),
                       <<>>, PyNone, ok))
            /\ run' = [run EXCEPT !.pc = IF ok THEN next ELSE "raised"]
       ELSE /\ ok
            /\ trace' = trace
            /\ run' = [run EXCEPT !.pc = next]
    /\ UNCHANGED <<orch, fs>>
    /\ UNCHANGED <<tvars, dvars, uvars>>

\* await self._emit_phase(label, EventType.PHASE_START)
EmitPhaseStart(ok) ==
    /\ run.pc = "phase_start"
    /\ EmitPhase("phase_start", "invoke", ok)

\* await self.<stage>.run(...): the call
StageInvoke ==
    /\ run.pc = "invoke"
    /\ trace' = Append(trace,
           Did("invoke", Stages[run.k], NoEvent, PromptDir(orch, run.k), PyNone, TRUE))
    /\ run' = [run EXCEPT !.pc = "running", !.stage_events = 0]
    /\ UNCHANGED <<orch, fs>>
    /\ UNCHANGED <<tvars, dvars, uvars>>

\* the stage's MessageProcessor hands an event to the stream handler; a
\* subscriber's exception is caught by the stage's except clause, which
\* returns None
StageEmit(ok) ==
    /\ run.pc = "running"
    /\ orch.stream_handler
    /\ run.stage_events < MaxStageEvents
    /\ LET e == Did("emit", Stages[run.k],
                    TextEvent("text_delta", Stages[run.k], "", <<"a">>),
                    <<>>, PyNone, ok)
       IN  IF ok
           THEN /\ trace' = Append(trace, e)
                /\ run' = [run EXCEPT !.stage_events = @ + 1]
           ELSE /\ trace' = trace \o
                       <<e, Did("return", Stages[run.k], NoEvent, <<>>, PyNone, TRUE)>>
                /\ run' = [run EXCEPT !.pc = "phase_end", !.out[run.k] = PyNone]
    /\ UNCHANGED <<orch, fs>>
    /\ UNCHANGED <<tvars, dvars, uvars>>

\* a stage whose run has no except clause
StageRaiseUncaught ==
    /\ run.pc = "running"
    /\ trace' = Append(trace, Did("raise", Stages[run.k], NoEvent, <<>>, PyNone, FALSE))
    /\ run' = [run EXCEPT !.pc = "raised"]
    /\ UNCHANGED <<orch, fs>>
    /\ UNCHANGED <<tvars, dvars, uvars>>

\* the runtime raises while the stage consumes its message stream: the
\* except clause of the stage's run returns None
StageRaise ==
    /\ run.pc = "running"
    /\ trace' = trace \o
           <<Did("raise", Stages[run.k], NoEvent, <<>>, PyNone, FALSE),
             Did("return", Stages[run.k], NoEvent, <<>>, PyNone, TRUE)>>
    /\ run' = [run EXCEPT !.pc = "phase_end", !.out[run.k] = PyNone]
    /\ UNCHANGED <<orch, fs>>
    /\ UNCHANGED <<tvars, dvars, uvars>>

\* await self.<stage>.run(...): the stage returns its artifact or None
StageReturn(value) ==
    /\ run.pc = "running"
    /\ value \in StageResults(run.k)
    /\ trace' = Append(trace, Did("return", Stages[run.k], NoEvent, <<>>, value, TRUE))
    /\ run' = [run EXCEPT !.pc = "phase_end", !.out[run.k] = value]
    /\ UNCHANGED <<orch, fs>>
    /\ UNCHANGED <<tvars, dvars, uvars>>

\* a pipeline that closes the phase only when the stage returned an artifact
EmitPhaseEndOnSuccess(ok) ==
    /\ run.pc = "phase_end"
    /\ IF run.out[run.k] = PyNone
       THEN /\ ok
            /\ run' = [run EXCEPT !.pc = IF run.k = 3 THEN "finish" ELSE "check"]
            /\ UNCHANGED <<orch, fs, trace>>
            /\ UNCHANGED <<tvars, dvars, uvars>>
       ELSE EmitPhase("phase_end", IF run.k = 3 THEN "finish" ELSE "check", ok)

\* await self._emit_phase(label, EventType.PHASE_END)
EmitPhaseEnd(ok) ==
    /\ run.pc = "phase_end"
    /\ EmitPhase("phase_end", IF run.k = 3 THEN "finish" ELSE "check", ok)

\* a pipeline that goes on to the next stage whatever the stage returned
CheckAndSaveLenient(saved) ==
    /\ run.pc = "check"
    /\ IF saved /\ run.out[run.k] # PyNone
       THEN /\ fs' = [d \in DOMAIN fs \cup {SaveDir(orch, run.k)} |->
                        IF d = SaveDir(orch, run.k) THEN run.out[run.k] ELSE fs[d]]
            /\ trace' = Append(trace,
                   Did("save", "orchestrator", NoEvent, SaveDir(orch, run.k),
                       run.out[run.k], TRUE))
            /\ run' = [run EXCEPT !.pc = "phase_start", !.k = @ + 1]
       ELSE /\ run' = [run EXCEPT !.pc = IF saved THEN "phase_start" ELSE "raised",
                                  !.k = IF saved THEN @ + 1 ELSE @]
            /\ UNCHANGED <<fs, trace>>
    /\ UNCHANGED orch
    /\ UNCHANGED <<tvars, dvars, uvars>>

\* a pipeline that keeps the artifact in memory and writes nothing
CheckAndSaveInMemory(saved) ==
    /\ run.pc = "check"
    /\ IF run.out[run.k] = PyNone
       THEN /\ saved
            /\ run' = [run EXCEPT
                   !.pc = "returned",
                   !.result = TaskResult(run.task_description,
                                         run.out[1], run.out[2], run.out[3], FALSE,
                                         PyStr(FailureLabel(run.k)))]
       ELSE run' = [run EXCEPT !.pc = IF saved THEN "phase_start" ELSE "raised",
                               !.k = IF saved THEN @ + 1 ELSE @]
    /\ UNCHANGED <<orch, fs, trace>>
    /\ UNCHANGED <<tvars, dvars, uvars>>

\* a pipeline that runs a stage a second time when it returned no artifact
CheckAndSaveRetry(saved) ==
    IF /\ run.pc = "check"
       /\ run.out[run.k] = PyNone
       /\ Cardinality({j \in 1..Len(trace) :
                         trace[j].op = "invoke" /\ trace[j].who = Stages[run.k]}) < 2
    THEN /\ saved
         /\ run' = [run EXCEPT !.pc = "phase_start"]
         /\ UNCHANGED <<orch, fs, trace>>
         /\ UNCHANGED <<tvars, dvars, uvars>>
    ELSE CheckAndSaveInMemory(saved)

\* after research and after planning: a None result ends run_task with the
\* stage's error label; otherwise the artifact is saved to the stage's
\* directory (save_to_dir writes files, so it can raise OSError, which leaves
\* run_task) and run_task goes on to the next stage
CheckAndSave(saved) ==
    /\ run.pc = "check"
    /\ IF run.out[run.k] = PyNone
       THEN /\ saved
            /\ run' = [run EXCEPT
                   !.pc = "returned",
                   !.result = TaskResult(run.task_description,
                                         run.out[1], run.out[2], run.out[3], FALSE,
                                         PyStr(FailureLabel(run.k)))]
            /\ UNCHANGED <<fs, trace>>
       ELSE IF saved
       THEN /\ fs' = [d \in DOMAIN fs \cup {SaveDir(orch, run.k)} |->
                        IF d = SaveDir(orch, run.k) THEN run.out[run.k] ELSE fs[d]]
            /\ trace' = Append(trace,
                   Did("save", "orchestrator", NoEvent, SaveDir(orch, run.k),
                       run.out[run.k], TRUE))
            /\ run' = [run EXCEPT !.pc = "phase_start", !.k = @ + 1]
       ELSE /\ run' = [run EXCEPT !.pc = "raised"]
            /\ UNCHANGED <<fs, trace>>
    /\ UNCHANGED orch
    /\ UNCHANGED <<tvars, dvars, uvars>>

\* a final result that reports success whenever the coder ran
FinalResultOptimistic(frame) ==
    TaskResult(frame.task_description, frame.out[1], frame.out[2], frame.out[3],
               TRUE, PyNone)

\* the TaskResult after the third stage: no error argument, so error is None
FinalResult(frame) ==
    TaskResult(frame.task_description, frame.out[1], frame.out[2], frame.out[3],
               IF frame.out[3] # PyNone THEN frame.out[3].success ELSE FALSE,
               PyNone)

\* run_task after the last phase event
Finish ==
    /\ run.pc = "finish"
    /\ run' = [run EXCEPT !.pc = "returned", !.result = FinalResult(run)]
    /\ UNCHANGED <<orch, fs, trace>>
    /\ UNCHANGED <<tvars, dvars, uvars>>

----------------------------------------------------------------------------
(* agents/planner.py and agents/researcher.py: Plan and ResearchResult     *)
(* written to and read from a directory. A file is the JSON documents      *)
(* written to it since it was last emptied, and whether the last write     *)
(* completed; a JSON document is a tree of js-tagged values.               *)

Dirs == {"d1", "d2"}

Fields(cls) ==
    IF cls = "Plan"
    THEN {"task_description", "requirements", "files_to_create", "files_to_modify",
          "implementation_steps", "dependencies", "notes"}
    ELSE {"original_requirements", "requirements_analysis", "research_agenda",
          "findings", "technical_context", "recommendations", "notes"}

\* the field without a default value
Required(cls) == IF cls = "Plan" THEN "task_description" ELSE "original_requirements"

\* the default values of the dataclass fields
Default(f) == IF f = "notes" THEN PyStr(<<>>) ELSE PyList(<<>>)

JsonName(cls) == IF cls = "Plan" THEN "plan.json" ELSE "research.json"

MdName(cls) == IF cls = "Plan" THEN "plan.md" ELSE "research.md"

\* dataclasses.asdict
AsDict(a) == PyDict([f \in Fields(a.cls) |-> a[f]])

\* json.dump of a value
RECURSIVE JsonDump(_)
JsonDump(v) ==
    IF v.py = "None" THEN [js |-> "null"]
    ELSE IF v.py = "str" THEN [js |-> "string", chars |-> v.s]
    ELSE IF v.py = "list"
    THEN [js |-> "array",
          elements |-> [i \in 1..Len(v.items) |-> JsonDump(v.items[i])]]
    ELSE [js |-> "object", members |-> [k \in DOMAIN v.d |-> JsonDump(v.d[k])]]

\* json.load of a document
RECURSIVE JsonLoad(_)
JsonLoad(j) ==
    IF j.js = "null" THEN PyNone
    ELSE IF j.js = "string" THEN PyStr(j.chars)
    ELSE IF j.js = "array"
    THEN PyList([i \in 1..Len(j.elements) |-> JsonLoad(j.elements[i])])
    ELSE PyDict([k \in DOMAIN j.members |-> JsonLoad(j.members[k])])

\* bool(v) is false
Falsy(v) ==
    \/ v.py = "None"
    \/ v.py = "str" /\ v.s = <<>>
    \/ v.py = "list" /\ v.items = <<>>
    \/ v.py = "dict" /\ DOMAIN v.d = {}

\* to_prompt raises: finding.get on a finding that is no dict
ToPromptRaises(a) ==
    /\ a.cls = "ResearchResult"
    /\ ~Falsy(a.findings)
    /\ \/ a.findings.py = "str"
       \/ a.findings.py = "list"
          /\ \E i \in 1..Len(a.findings.items) : a.findings.items[i].py # "dict"

NoFile == [docs |-> <<>>, complete |-> TRUE]

\* a file opened without emptying it
OpenForAppending(files, path) == IF path \in DOMAIN files THEN files[path] ELSE NoFile

\* open(path, "w")
OpenForWriting(files, path) == NoFile

\* files with the file at path replaced
Written(files, path, file) ==
    [q \in DOMAIN files \cup {path} |-> IF q = path THEN file ELSE files[q]]

NoStore == [files |-> [q \in {} |-> NoFile], latest |-> [q \in {} |-> PyNone],
            loaded |-> PyNone]

\* the latest save_to_dir call of a class on a directory: whether it
\* returned, what it saved if it did, and whether plan.json or research.json
\* held something else before
Saved(a, dir, returned) ==
    [q \in DOMAIN store.latest \cup {<<dir, a.cls>>} |->
        IF q = <<dir, a.cls>>
        THEN [value |-> IF returned THEN a ELSE PyNone, returned |-> returned,
              replaced |-> /\ returned
                           /\ <<dir, JsonName(a.cls)>> \in DOMAIN store.files
                           /\ store.files[<<dir, JsonName(a.cls)>>]
                                  \notin {NoFile, [docs |-> <<JsonDump(AsDict(a))>>,
                                                   complete |-> TRUE]}]
        ELSE store.latest[q]]

\* a.save_to_dir(dir). io tells how far the operating system lets it get:
\* "mkdir" fails before plan.json is opened, "write" fails while json.dump
\* writes, "ok" fails nowhere
SaveToDir(a, dir, io) ==
    LET json_path == <<dir, JsonName(a.cls)>>
        md_path == <<dir, MdName(a.cls)>>
        f == OpenForWriting(store.files, json_path)
        dumped == [f EXCEPT !.docs = Append(@, JsonDump(AsDict(a)))]
        with_json == Written(store.files, json_path, dumped)
        md == OpenForWriting(with_json, md_path)
    IN  /\ store' =
              IF io = "mkdir"
              THEN [store EXCEPT !.latest = Saved(a, dir, FALSE), !.loaded = PyNone]
              ELSE IF io = "write"
              THEN [store EXCEPT
                       !.files = Written(store.files, json_path,
                                         [f EXCEPT !.complete = FALSE]),
                       !.latest = Saved(a, dir, FALSE), !.loaded = PyNone]
              ELSE IF ToPromptRaises(a)
              THEN [store EXCEPT
                       !.files = Written(with_json, md_path, md),
                       !.latest = Saved(a, dir, FALSE), !.loaded = PyNone]
              ELSE [store EXCEPT
                       !.files = Written(with_json, md_path,
                                         [md EXCEPT !.docs = Append(@, [md |-> a])]),
                       !.latest = Saved(a, dir, TRUE), !.loaded = PyNone]
        /\ UNCHANGED <<call, render>>
        /\ UNCHANGED <<tvars, dvars, ovars>>

\* cls(**data)
Construct(cls, data) ==
    IF data.py # "dict" THEN Raises("TypeError")
    ELSE IF ~(DOMAIN data.d \subseteq Fields(cls)) \/ Required(cls) \notin DOMAIN data.d
    THEN Raises("TypeError")
    ELSE Returns([f \in Fields(cls) \cup {"cls"} |->
             IF f = "cls" THEN cls ELSE Get(data.d, f, Default(f))])

\* cls.load_from_dir(dir)
LoadFromDir(cls, dir) ==
    LET json_path == <<dir, JsonName(cls)>>
        outcome ==
            IF json_path \notin DOMAIN store.files THEN Raises("FileNotFoundError")
            ELSE LET f == store.files[json_path]
                 IN  IF ~f.complete \/ Len(f.docs) # 1 THEN Raises("JSONDecodeError")
                     ELSE Construct(cls, JsonLoad(f.docs[1]))
    IN  /\ store' = [store EXCEPT !.loaded = [cls |-> cls, dir |-> dir,
                                              outcome |-> outcome]]
        /\ UNCHANGED <<call, render>>
        /\ UNCHANGED <<tvars, dvars, ovars>>

\* the artifacts saved: a plan with populated lists, and what the parsers
\* make of a full object, of findings that are no objects and of no text
SavedArtifacts ==
    {Plan(PyStr(<<"t">>), PyList(<<PyStr(<<"r">>), PyStr(<<"q">>)>>),
          PyList(<<PyStr(<<"a", ".", "p", "y">>)>>), PyList(<<>>),
          PyList(<<PyStr(<<"1">>), PyStr(<<"2">>)>>), PyList(<<PyStr(<<"d">>)>>),
          PyStr(<<"n">>))}
    \cup {Parse("parse_plan_response",
                 Response(<<"j">>, JsonText(FullObject), NoMatch, InvalidJson)).value}
    \cup {Parse("parse_research_response",
                 Response(<<"j">>, JsonText(v), NoMatch, InvalidJson)).value :
            v \in {FullObject, PyDict([findings |-> PyList(<<PyStr(<<"f">>)>>)])}}

----------------------------------------------------------------------------
(* stream_handler.py: DefaultStreamRenderer. What a callback prints is a   *)
(* sequence of outputs; render holds the renderer, the handler that        *)
(* create_handler returned, the events emitted on it and the outputs, each *)
(* with the number of the emit call that printed it.                       *)

\* events the renderer is given
MaxRendered == 2

\* tool_result[:120]
SnippetLen == 120

DefaultStreamRenderer(show_thinking, show_tools, json_events) ==
    [show_thinking |-> show_thinking, show_tools |-> show_tools,
     json_events |-> json_events]

\* create_handler: the callbacks registered on the new StreamHandler
CreateHandler(self) ==
    IF self.json_events
    THEN [global_callbacks |-> <<"_handle_json">>, callbacks |-> EmptyDict]
    ELSE [global_callbacks |-> <<>>,
          callbacks |-> [phase_start |-> <<"_handle_phase">>,
                         phase_end |-> <<"_handle_phase">>,
                         text_delta |-> <<"_handle_text">>,
                         tool_start |-> <<"_handle_tool">>,
                         tool_result |-> <<"_handle_tool">>,
                         thinking |-> <<"_handle_thinking">>]]

\* one more key in a dict
With(d, k, v) == [q \in DOMAIN d \cup {k} |-> IF q = k THEN v ELSE d[q]]

\* a JSON renderer that writes input and result for every tool event
HandleJsonAllKeys(self, event) ==
    LET data == [type |-> event.type, agent |-> event.agent_name,
                 timestamp |-> event.timestamp]
    IN  <<[stream |-> "stdout", flush |-> TRUE,
           json |-> IF event.cls = "TextEvent" THEN With(data, "text", event.text)
                    ELSE IF event.cls = "ToolEvent"
                    THEN With(With(With(data, "tool", event.tool_name),
                                   "input", event.tool_input),
                              "result", event.tool_result)
                    ELSE IF event.cls = "ThinkingEvent"
                    THEN With(data, "thinking", event.thinking)
                    ELSE IF event.cls = "PhaseEvent" THEN With(data, "phase", event.phase)
                    ELSE With(data, "data", event.data)]>>

\* _handle_json
HandleJson(self, event) ==
    LET data == [type |-> event.type, agent |-> event.agent_name,
                 timestamp |-> event.timestamp]
        tool == With(data, "tool", event.tool_name)
        input == IF DOMAIN event.tool_input # {}
                 THEN With(tool, "input", event.tool_input) ELSE tool
        result == IF event.tool_result # <<>>
                  THEN With(input, "result", event.tool_result) ELSE input
    IN  <<[stream |-> "stdout", flush |-> TRUE,
           json |-> IF event.cls = "TextEvent" THEN With(data, "text", event.text)
                    ELSE IF event.cls = "ToolEvent" THEN result
                    ELSE IF event.cls = "ThinkingEvent"
                    THEN With(data, "thinking", event.thinking)
                    ELSE IF event.cls = "PhaseEvent" THEN With(data, "phase", event.phase)
                    ELSE With(data, "data", event.data)]>>

\* _handle_phase
HandlePhase(self, event) ==
    IF event.cls # "PhaseEvent" THEN <<>>
    ELSE IF event.type = "phase_start"
    THEN <<[stream |-> "stderr", starting |-> event.phase]>>
    ELSE <<[stream |-> "stderr", done |-> event.phase]>>

\* _handle_text
HandleText(self, event) ==
    IF event.cls = "TextEvent"
    THEN <<[stream |-> "stdout", flush |-> TRUE, text |-> event.text]>>
    ELSE <<>>

\* a tool callback that prints the whole result
HandleToolWhole(self, event) ==
    IF ~self.show_tools THEN <<>>
    ELSE IF event.cls # "ToolEvent" THEN <<>>
    ELSE IF event.type = "tool_start"
    THEN <<[stream |-> "stderr", tool |-> event.tool_name]>>
    ELSE <<[stream |-> "stderr", result |-> event.tool_result]>>

\* _handle_tool
HandleTool(self, event) ==
    IF ~self.show_tools THEN <<>>
    ELSE IF event.cls # "ToolEvent" THEN <<>>
    ELSE IF event.type = "tool_start"
    THEN <<[stream |-> "stderr", tool |-> event.tool_name]>>
    ELSE <<[stream |-> "stderr", result |-> Take(event.tool_result, SnippetLen)]>>

\* _handle_thinking
HandleThinking(self, event) ==
    IF ~self.show_thinking THEN <<>>
    ELSE IF event.cls = "ThinkingEvent"
    THEN <<[stream |-> "stderr", thinking |-> event.thinking]>>
    ELSE <<>>

\* await callback(event) for a callback of the renderer
CallRenderer(callback, self, event) ==
    IF callback = "_handle_json" THEN HandleJson(self, event)
    ELSE IF callback = "_handle_phase" THEN HandlePhase(self, event)
    ELSE IF callback = "_handle_text" THEN HandleText(self, event)
    ELSE IF callback = "_handle_tool" THEN HandleTool(self, event)
    ELSE HandleThinking(self, event)

\* what the callbacks cbs print, one after the other
RECURSIVE Printed(_, _, _)
Printed(cbs, self, event) ==
    IF cbs = <<>> THEN <<>>
    ELSE CallRenderer(Head(cbs), self, event) \o Printed(Tail(cbs), self, event)

NoRender == [renderer |-> PyNone, handler |-> PyNone, out |-> <<>>, seen |-> <<>>]

\* DefaultStreamRenderer(...).create_handler()
InitRenderer ==
    \E show_thinking \in BOOLEAN, show_tools \in BOOLEAN, json_events \in BOOLEAN :
        LET self == DefaultStreamRenderer(show_thinking, show_tools, json_events)
        IN  render = [renderer |-> self, handler |-> CreateHandler(self),
                      out |-> <<>>, seen |-> <<>>]

\* handler.emit(e) on the renderer's handler, for an event made just now:
\* the global callbacks, then the callbacks of the event's type
RenderEmit(e) ==
    LET event == [e EXCEPT !.timestamp = Len(render.seen) + 1]
        h == render.handler
        cbs == h.global_callbacks \o Get(h.callbacks, event.type, <<>>)
        printed == Printed(cbs, render.renderer, event)
    IN  /\ Len(render.seen) < MaxRendered
        /\ render' = [render EXCEPT
              !.seen = Append(@, event),
              !.out = @ \o [j \in 1..Len(printed) |->
                               [of |-> Len(render.seen) + 1, printed |-> printed[j]]]]
        /\ UNCHANGED <<call, store>>
        /\ UNCHANGED <<tvars, dvars, ovars>>

\* a tool result longer than the renderer prints
LongResult == [i \in 1..(SnippetLen + 1) |-> IF i > SnippetLen THEN "z" ELSE "r"]

\* events of every class and type
RenderEvents ==
    {TextEvent("text_delta", "coder", "s", <<"a">>),
     ToolEvent("tool_start", "coder", "s", "Read", [path |-> <<"p">>], <<>>, "t1"),
     ToolEvent("tool_start", "coder", "s", "Glob", EmptyDict, <<>>, "t2"),
     ToolEvent("tool_result", "coder", "s", "", EmptyDict, LongResult, "t1"),
     ToolEvent("tool_result", "coder", "s", "", EmptyDict, <<"o", "k">>, "t1"),
     ToolEvent("tool_result", "coder", "s", "", EmptyDict, <<>>, "t2"),
     ThinkingEvent("thinking", "coder", "s", <<"h">>),
     PhaseEvent("phase_start", "orchestrator", "", "research"),
     PhaseEvent("phase_end", "orchestrator", "", "research"),
     ProgressEvent("progress", "coder", "s", "m", [k |-> <<"v">>]),
     StreamEvent("session_init", "coder", "s", [model |-> <<"m">>]),
     StreamEvent("session_complete", "coder", "s", EmptyDict),
     StreamEvent("error", "coder", "s", [error |-> <<"e">>])}

----------------------------------------------------------------------------
(* main.py: the command line. A URL is a sequence of pieces of text: the   *)
(* scheme and host with the slash after them as one piece, "/" alone, and  *)
(* pieces without a slash. run_coding_task is given by what it does when   *)
(* called: it returns a TaskResult that succeeded or failed, or raises.    *)

Digits == {"1", "2"}

\* the position of the first "/" of url after position from, or 0
NextSlash(url, from) ==
    IF \E j \in (from + 1)..Len(url) : url[j] = "/"
    THEN CHOOSE j \in (from + 1)..Len(url) :
             url[j] = "/" /\ \A i \in (from + 1)..(j - 1) : url[i] # "/"
    ELSE 0

\* re.match(r"https?://github\.com/([^/]+)/([^/]+)/issues/(\d+)", url): the
\* pattern matches a prefix of url; None is PyNone
ParseGithubIssueUrl(url) ==
    LET a == NextSlash(url, 1)
        b == NextSlash(url, a)
    IN  IF /\ Len(url) >= 1
           /\ url[1] \in {"https://github.com/", "http://github.com/"}
           /\ a > 2
           /\ b > a + 1
           /\ Len(url) >= b + 3
           /\ url[b + 1] = "issues"
           /\ url[b + 2] = "/"
           /\ url[b + 3] \in Digits
        THEN PyList(<<PyStr(SubSeq(url, 2, a - 1)), PyStr(SubSeq(url, a + 1, b - 1))>>)
        ELSE PyNone

\* how the process ends: its exit status and the run_coding_task calls made
Exit(code, ran) == [raised |-> FALSE, exit_code |-> code, ran |-> ran]

\* run_interactive: each line entered that is no exit word runs the
\* pipeline; the function returns at the exit word or the end of input
RunInteractive(args) == Len(args.entered)

\* main, after parse_args; an exception that leaves main ends the process
\* with status 1
Main(args) ==
    IF args.interactive THEN Exit(0, RunInteractive(args))
    ELSE IF Truthy(args.issue) \/ Truthy(args.task)
    THEN IF Truthy(args.issue) /\ ParseGithubIssueUrl(args.issue.s) = PyNone
         THEN Exit(1, 0)
         ELSE IF args.pipeline = "raises" THEN Exit(1, 1)
         ELSE IF args.pipeline = "success" THEN Exit(0, 1)
         ELSE Exit(1, 1)
    ELSE Exit(1, 0)

\* values of --issue: none, empty, a well-formed URL with either scheme,
\* another host, a missing number, and text after the number
IssueArgs ==
    {PyNone, PyStr(<<>>),
     PyStr(<<"https://github.com/", "o", "/", "r", "/", "issues", "/", "1">>),
     PyStr(<<"http://github.com/", "o", "/", "r", "/", "issues", "/", "1", "2">>),
     PyStr(<<"https://gitlab.com/", "o", "/", "r", "/", "issues", "/", "1">>),
     PyStr(<<"https://github.com/", "o", "/", "r", "/", "issues", "/">>),
     PyStr(<<"https://github.com/", "o", "/", "r", "/", "pull", "/", "1">>),
     PyStr(<<"https://github.com/", "o", "/", "issues", "/", "1">>),
     PyStr(<<"https://github.com/", "o", "/", "r", "/", "issues", "/", "1", "x">>),
     PyStr(<<"https://github.com/", "o", "/", "r", "/", "issues", "/", "1", "/", "x">>)}

\* the command lines: the flags and arguments, what the pipeline does when
\* run, and in interactive mode the results of the tasks entered
MainInputs ==
    {[interactive |-> i, issue |-> u, task |-> t, pipeline |-> p, entered |-> e] :
        i \in BOOLEAN, u \in IssueArgs, t \in {PyNone, PyStr(<<"t">>)},
        p \in {"success", "failure", "raises"},
        e \in {<<>>, <<"success">>, <<"failure">>, <<"failure", "success">>}}

----------------------------------------------------------------------------
(* The run method of the five agents: the loop over the runtime's          *)
(* messages, with the stage's MessageProcessor when a stream handler is    *)
(* attached. arg holds the run: the agent, whether a stream handler is     *)
(* attached, whether a subscriber failed, and the text handed to the       *)
(* parser. The runtime's stream ends with its result message.              *)

\* messages of one run
MaxRunMsgs == 2

Agents == {"researcher", "planner", "detail_planner", "coder", "reviewer"}

\* the agents whose loop keeps the cursor prev_text_len
CursorAgents == {"coder", "reviewer"}

\* the agents that read message.result or ""
OrEmptyAgents == {"detail_planner", "coder", "reviewer"}

\* an accumulation that keeps only the latest message's text
AccumulateLatest(res, msg) ==
    IF msg.cls = "AssistantMessage" /\ BlockTexts(msg.content) # <<>>
    THEN BlockTexts(msg.content) ELSE res

\* result_text += block.text for every block with a text
Accumulate(res, msg) ==
    IF msg.cls = "AssistantMessage" THEN res \o BlockTexts(msg.content) ELSE res

\* the loop's locals after one message, for each agent
RunStep(agent, prev, res, dlt, msg) ==
    IF agent \in CursorAgents THEN LoopStep(prev, res, dlt, msg)
    ELSE [prev_text_len |-> prev, delta |-> dlt,
          result_text |->
              IF msg.cls = "ResultMessage" /\ msg.subtype = "success"
              THEN IF agent \in OrEmptyAgents THEN OrEmpty(msg.result) ELSE msg.result
              ELSE Accumulate(res, msg)]

StageRun(agent, stream_handler) ==
    [cls |-> "run", agent |-> agent, stream_handler |-> stream_handler,
     subscriber_failed |-> FALSE, handed |-> FALSE, text |-> <<>>]

ToolUse == [id |-> "t1", name |-> "Read", input |-> [path |-> "f"]]

\* the messages of a run: texts of one and two characters, two different
\* texts of the same length, a tool use announced and coalesced, results
RunMessages ==
    {AssistantMessage(c) :
        c \in {<<[text |-> <<"a">>]>>, <<[text |-> <<"a", "b">>]>>,
               <<[text |-> <<"a">>], [text |-> <<"a">>]>>,
               <<ToolUse>>, <<[text |-> <<"a">>], ToolUse>>}}
    \cup {[cls |-> "ResultMessage", subtype |-> st, result |-> r] :
            st \in {"success", "error_during_execution"}, r \in {NoneStr, <<"b">>}}
    \cup {[cls |-> "StreamEvent",
           event |-> PyDict([type |-> "content_block_start",
                             content_block |-> PyDict([type |-> "tool_use",
                                                       name |-> "Read", id |-> "t1"])])],
          [cls |-> "StreamEvent",
           event |-> PyDict([type |-> "content_block_delta",
                             delta |-> PyDict([type |-> "text_delta",
                                               text |-> <<"a">>])])],
          [cls |-> "StreamEvent",
           event |-> PyDict([type |-> "content_block_delta", delta |-> PyNone])]}

\* the call of run, up to the loop
InitRun ==
    /\ arg \in {StageRun(a, h) : a \in Agents, h \in BOOLEAN}
    /\ processor = [agent_name |-> arg.agent, session_id |-> ""]
    /\ events = <<>>
    /\ emitted = <<>>
    /\ raised = FALSE
    /\ received = <<>>
    /\ prev_text_len = 0
    /\ result_text = <<>>
    /\ delta = <<>>
    /\ pc = "running"

\* what process(msg) emits in a run: nothing without a stream handler
Translated(msg) ==
    IF arg.stream_handler THEN Process(processor, msg) ELSE Outcome(<<>>, FALSE)

\* a run whose emit calls swallow a subscriber's exception
RunReceiveIsolated(msg, fail_at) ==
    /\ pc = "running"
    /\ Len(received) < MaxRunMsgs
    /\ LET r == Translated(msg)
           l == RunStep(arg.agent, prev_text_len, result_text, delta, msg)
       IN  /\ fail_at \in 0..Len(r.events)
           /\ received' = Append(received, msg)
           /\ emitted' = r.events
           /\ events' = events \o r.events
           /\ raised' = r.raised
           /\ arg' = [arg EXCEPT !.subscriber_failed = @ \/ fail_at > 0]
           /\ IF r.raised
              THEN /\ pc' = "failed"
                   /\ UNCHANGED <<prev_text_len, result_text, delta>>
              ELSE /\ pc' = IF msg.cls = "ResultMessage" THEN "ended" ELSE "running"
                   /\ prev_text_len' = l.prev_text_len
                   /\ result_text' = l.result_text
                   /\ delta' = l.delta
    /\ UNCHANGED processor
    /\ UNCHANGED <<dvars, ovars, uvars>>

\* one iteration of the loop: process(msg) emits its events one by one, and
\* the subscribers of the event numbered fail_at raise (0: none does); an
\* exception of emit or of process leaves the loop for the except clause,
\* which returns None; otherwise the loop's locals are updated
RunReceive(msg, fail_at) ==
    /\ pc = "running"
    /\ Len(received) < MaxRunMsgs
    /\ LET r == Translated(msg)
           l == RunStep(arg.agent, prev_text_len, result_text, delta, msg)
       IN  /\ fail_at \in 0..Len(r.events)
           /\ received' = Append(received, msg)
           /\ IF fail_at > 0
              THEN /\ emitted' = SubSeq(r.events, 1, fail_at)
                   /\ events' = events \o SubSeq(r.events, 1, fail_at)
                   /\ raised' = TRUE
                   /\ arg' = [arg EXCEPT !.subscriber_failed = TRUE]
                   /\ pc' = "failed"
                   /\ UNCHANGED <<prev_text_len, result_text, delta>>
              ELSE /\ emitted' = r.events
                   /\ events' = events \o r.events
                   /\ raised' = r.raised
                   /\ arg' = arg
                   /\ IF r.raised
                      THEN /\ pc' = "failed"
                           /\ UNCHANGED <<prev_text_len, result_text, delta>>
                      ELSE /\ pc' = IF msg.cls = "ResultMessage"
                                    THEN "ended" ELSE "running"
                           /\ prev_text_len' = l.prev_text_len
                           /\ result_text' = l.result_text
                           /\ delta' = l.delta
    /\ UNCHANGED processor
    /\ UNCHANGED <<dvars, ovars, uvars>>

\* the stream is over: return self.<parser>(result_text)
RunReturn ==
    /\ pc \in {"running", "ended"}
    /\ pc' = "returned"
    /\ arg' = [arg EXCEPT !.handed = TRUE, !.text = result_text]
    /\ UNCHANGED <<processor, events, emitted, raised, received, prev_text_len,
                   result_text, delta>>
    /\ UNCHANGED <<dvars, ovars, uvars>>

----------------------------------------------------------------------------
(* Single calls: a parser applied to a final text *)

NoCall == [fn |-> "", input |-> PyNone, outcome |-> PyNone, pc |-> "idle"]

\* the call fn(input) about to be made
CallOf(fn, input) == [fn |-> fn, input |-> input, outcome |-> PyNone, pc |-> "call"]

InitCallIdle == call = NoCall

InitStoreIdle == store = NoStore

InitRenderIdle == render = NoRender

\* no call, no artifact directory and no renderer in use
InitOthers == InitCallIdle /\ InitStoreIdle /\ InitRenderIdle

----------------------------------------------------------------------------
(* The state machine *)

NoArg == [cls |-> "None"]

\* CoderAgent.run up to the loop: MessageProcessor(stream_handler, "coder")
Init ==
    /\ processor = [agent_name |-> "coder", session_id |-> ""]
    /\ events = <<>>
    /\ emitted = <<>>
    /\ raised = FALSE
    /\ received = <<>>
    /\ prev_text_len = 0
    /\ result_text = <<>>
    /\ delta = <<>>
    /\ arg = NoArg
    /\ pc = "running"
    /\ InitHandler
    /\ InitOrchestrator({<<>>}, {FALSE}, {PyNone}, {PyNone})
    /\ InitOthers

\* one iteration of CoderAgent.run's loop: process(msg), then the cursor and
\* the result text; an exception ends the run in the except clause
Receive(msg) ==
    /\ pc = "running"
    /\ Len(received) < MaxMsgs
    /\ LET r == Process(processor, msg)
           l == LoopStep(prev_text_len, result_text, delta, msg)
       IN  /\ received' = Append(received, msg)
           /\ emitted' = r.events
           /\ events' = events \o r.events
           /\ raised' = r.raised
           /\ IF r.raised
              THEN /\ pc' = "failed"
                   /\ UNCHANGED <<prev_text_len, result_text, delta>>
              ELSE /\ pc' = "running"
                   /\ prev_text_len' = l.prev_text_len
                   /\ result_text' = l.result_text
                   /\ delta' = l.delta
    /\ UNCHANGED <<processor, arg>>
    /\ UNCHANGED <<dvars, ovars, uvars>>

Next == \E msg \in TurnMessages : Receive(msg)

Spec == Init /\ [][Next]_vars

\* a fresh MessageProcessor and one message about to be passed to process
InitProcess ==
    /\ processor = [agent_name |-> "coder", session_id |-> ""]
    /\ events = <<>>
    /\ emitted = <<>>
    /\ raised = FALSE
    /\ received = <<>>
    /\ prev_text_len = 0
    /\ result_text = <<>>
    /\ delta = <<>>
    /\ arg \in ProcessInputs
    /\ pc = "call"
    /\ InitHandler
    /\ InitOrchestrator({<<>>}, {FALSE}, {PyNone}, {PyNone})
    /\ InitOthers

\* MessageProcessor.process(arg)
ProcessCall ==
    /\ pc = "call"
    /\ LET r == Process(processor, arg)
       IN  /\ received' = Append(received, arg)
           /\ emitted' = r.events
           /\ events' = events \o r.events
           /\ raised' = r.raised
    /\ pc' = "done"
    /\ UNCHANGED <<processor, prev_text_len, result_text, delta, arg>>
    /\ UNCHANGED <<dvars, ovars, uvars>>

NextProcess == ProcessCall

SpecProcess == InitProcess /\ [][NextProcess]_vars

\* no stage loop and no process call in progress
InitTranslatorIdle ==
    /\ processor = [agent_name |-> "coder", session_id |-> ""]
    /\ events = <<>>
    /\ emitted = <<>>
    /\ raised = FALSE
    /\ received = <<>>
    /\ prev_text_len = 0
    /\ result_text = <<>>
    /\ delta = <<>>
    /\ arg = NoArg
    /\ pc = "idle"

\* a fresh StreamHandler and its client's calls
InitDispatch ==
    /\ InitTranslatorIdle
    /\ InitHandler
    /\ InitOrchestrator({<<>>}, {FALSE}, {PyNone}, {PyNone})
    /\ InitOthers

NextDispatch ==
    \/ \E t \in SubKinds, c \in Callbacks : On(t, c)
    \/ \E c \in Callbacks : OnAll(c)
    \/ \E e \in EmitEvents : Emit(e)
    \/ Invoke
    \/ CallbackDone
    \/ CallbackRaise
    \/ EmitReturn

SpecDispatch == InitDispatch /\ [][NextDispatch]_vars

\* an Orchestrator and one run_task call
InitOrch ==
    /\ InitTranslatorIdle
    /\ InitHandler
    /\ InitOrchestrator(WorkingDirs, BOOLEAN, TaskArgs, UrlArgs)
    /\ InitOthers

NextOrch ==
    \/ Begin
    \/ \E ok \in BOOLEAN : EmitPhaseStart(ok)
    \/ StageInvoke
    \/ \E ok \in BOOLEAN : StageEmit(ok)
    \/ \E v \in AllStageResults : StageReturn(v)
    \/ StageRaise
    \/ \E ok \in BOOLEAN : EmitPhaseEnd(ok)
    \/ \E saved \in BOOLEAN : CheckAndSave(saved)
    \/ Finish

SpecOrch == InitOrch /\ [][NextOrch]_vars

\* run_task is a coroutine the event loop keeps resuming
SpecOrchFair == SpecOrch /\ WF_vars(NextOrch)

\* the events of both emitters: a process call of the translator on a message
\* of at most one block (each block's events depend on that block alone), or
\* a run_task of an orchestrator that has a stream handler
InitEvents ==
    \/ /\ InitProcess
       /\ arg.cls = "AssistantMessage" => Len(arg.content) <= 1
    \/ /\ InitTranslatorIdle
       /\ InitHandler
       /\ InitOrchestrator({<<>>}, {TRUE}, {PyStr(<<"t">>)}, {PyNone})
       /\ InitOthers

NextEvents == NextProcess \/ NextOrch

SpecEvents == InitEvents /\ [][NextEvents]_vars

\* the function called, applied to its argument
Apply(fn, input) ==
    IF fn = "load_mcp_config" THEN LoadMcpConfig(input)
    ELSE IF fn = "main" THEN Main(input)
    ELSE Parse(fn, input)

\* the inputs of the single calls
CallInputs ==
    {CallOf(fn, r) : fn \in Parsers, r \in Responses}
    \cup {CallOf("load_mcp_config", c) : c \in ConfigInputs}
    \cup {CallOf("main", a) : a \in MainInputs}

\* one function about to be applied to one argument
InitCall ==
    /\ InitTranslatorIdle
    /\ InitHandler
    /\ InitOrchestrator({<<>>}, {FALSE}, {PyNone}, {PyNone})
    /\ call \in CallInputs
    /\ InitStoreIdle
    /\ InitRenderIdle

\* the call is made
CallRun ==
    /\ call.pc = "call"
    /\ call' = [call EXCEPT !.outcome = Apply(call.fn, call.input), !.pc = "done"]
    /\ UNCHANGED <<store, render>>
    /\ UNCHANGED <<tvars, dvars, ovars>>

NextCall == CallRun

SpecCall == InitCall /\ [][NextCall]_vars

InitStore ==
    /\ InitTranslatorIdle
    /\ InitHandler
    /\ InitOrchestrator({<<>>}, {FALSE}, {PyNone}, {PyNone})
    /\ InitOthers

NextStore ==
    \/ \E a \in SavedArtifacts, dir \in Dirs, io \in {"mkdir", "write", "ok"} :
          SaveToDir(a, dir, io)
    \/ \E cls \in {"Plan", "ResearchResult"}, dir \in Dirs : LoadFromDir(cls, dir)

SpecStore == InitStore /\ [][NextStore]_vars

InitRender ==
    /\ InitTranslatorIdle
    /\ InitHandler
    /\ InitOrchestrator({<<>>}, {FALSE}, {PyNone}, {PyNone})
    /\ InitCallIdle
    /\ InitStoreIdle
    /\ InitRenderer

NextRender == \E e \in RenderEvents : RenderEmit(e)

SpecRender == InitRender /\ [][NextRender]_vars

InitStageRun ==
    /\ InitRun
    /\ InitHandler
    /\ InitOrchestrator({<<>>}, {FALSE}, {PyNone}, {PyNone})
    /\ InitOthers

NextRun ==
    \/ \E msg \in RunMessages, fail_at \in 0..2 : RunReceive(msg, fail_at)
    \/ RunReturn

SpecRun == InitStageRun /\ [][NextRun]_vars

----------------------------------------------------------------------------
(* Vocabulary of the properties *)

LastMsg == received[Len(received)]

IsPrefix(s, t) == Len(s) <= Len(t) /\ SubSeq(t, 1, Len(s)) = s

IsTextDelta(e) == e.type = "text_delta"

IsThinking(e) == e.type = "thinking"

IsToolStart(e) == e.type = "tool_start"

IsToolResult(e) == e.type = "tool_result"

IsToolUseBlock(b) == HasAttr(b, "name") /\ HasAttr(b, "input")

IsToolResultBlock(b) == HasAttr(b, "content") /\ HasAttr(b, "tool_use_id")

\* the texts of the TextDelta events of evs, concatenated in emission order
RECURSIVE TextOut(_)
TextOut(evs) ==
    IF evs = <<>> THEN <<>>
    ELSE (IF IsTextDelta(Head(evs)) THEN Head(evs).text ELSE <<>>) \o TextOut(Tail(evs))

\* the payloads of the Thinking events of evs, concatenated in emission order
RECURSIVE ThinkingOut(_)
ThinkingOut(evs) ==
    IF evs = <<>> THEN <<>>
    ELSE (IF IsThinking(Head(evs)) THEN Head(evs).thinking ELSE <<>>)
         \o ThinkingOut(Tail(evs))

\* the thinking fragments of an assistant message, concatenated
RECURSIVE FullThinking(_)
FullThinking(content) ==
    IF content = <<>> THEN <<>>
    ELSE (IF HasAttr(Head(content), "thinking") THEN Head(content).thinking ELSE <<>>)
         \o FullThinking(Tail(content))

AllAssistant == \A i \in 1..Len(received) : received[i].cls = "AssistantMessage"

\* the text of a partial-stream text delta, <<>> for any other message
DeltaTextOf(m) ==
    IF /\ m.cls = "StreamEvent"
       /\ m.event.py = "dict"
       /\ Get(m.event.d, "type", "") = "content_block_delta"
       /\ HasAttr(m.event.d, "delta")
       /\ m.event.d.delta.py = "dict"
       /\ Get(m.event.d.delta.d, "type", "") = "text_delta"
    THEN Get(m.event.d.delta.d, "text", <<>>)
    ELSE <<>>

IsTextDeltaMsg(m) == DeltaTextOf(m) # <<>>

RECURSIVE DeltaTexts(_)
DeltaTexts(msgs) ==
    IF msgs = <<>> THEN <<>> ELSE DeltaTextOf(Head(msgs)) \o DeltaTexts(Tail(msgs))

----------------------------------------------------------------------------
(* Properties of the stage loop, checked under Spec *)

\* C1: for cumulative snapshots of one turn (each assistant message's full
\* text extends the previous one's, so the lengths never decrease), the texts
\* of the emitted TextDelta events concatenate exactly to the last full text.
C1_DeltasConcatToFinalText ==
    ( /\ received # <<>>
      /\ AllAssistant
      /\ \A i \in 1..(Len(received) - 1) :
            IsPrefix(BlockTexts(received[i].content), BlockTexts(received[i + 1].content)) )
    => TextOut(events) = BlockTexts(LastMsg.content)

\* C2: when a text arrives first as text_delta partial events and then as the
\* coalesced assistant message carrying the same text, the emitted TextDelta
\* texts contain that text exactly once.
C2_BothStylesOnce ==
    ( /\ Len(received) >= 2
      /\ \A i \in 1..(Len(received) - 1) : IsTextDeltaMsg(received[i])
      /\ LastMsg.cls = "AssistantMessage"
      /\ BlockTexts(LastMsg.content) = DeltaTexts(SubSeq(received, 1, Len(received) - 1)) )
    => TextOut(events) = BlockTexts(LastMsg.content)

\* C3: a step that receives an assistant message whose full text is shorter
\* than the cursor leaves the cursor at the new text's length (reset to 0 and
\* then advanced over the new text alone), computes the whole new text as the
\* delta, and the TextDelta events emitted for the message carry its whole text.
C3_NewTurnResetsCursor ==
    [][ ( /\ Len(received') = Len(received) + 1
          /\ received'[Len(received')].cls = "AssistantMessage"
          /\ Len(BlockTexts(received'[Len(received')].content)) < prev_text_len )
        => LET full == BlockTexts(received'[Len(received')].content)
           IN  /\ prev_text_len' = Len(full)
               /\ full # <<>> => (delta' = full /\ result_text' = full)
               /\ TextOut(emitted') = full ]_vars

\* C3 witness: a second assistant message, non-empty and shorter than the
\* first, has been received and its whole text is the delta.
C3_Witness ==
    /\ Len(received) = 2
    /\ AllAssistant
    /\ BlockTexts(received[2].content) # <<>>
    /\ Len(BlockTexts(received[2].content)) < Len(BlockTexts(received[1].content))
    /\ prev_text_len = Len(BlockTexts(received[2].content))
    /\ delta = BlockTexts(received[2].content)
    /\ TextOut(emitted) = delta

\* C4: the same assistant message passed twice in a row emits no TextDelta
\* on the second call.
C4_RepeatedMessageEmitsNothing ==
    ( /\ Len(received) >= 2
      /\ LastMsg.cls = "AssistantMessage"
      /\ received[Len(received) - 1] = LastMsg )
    => \A i \in 1..Len(emitted) : ~IsTextDelta(emitted[i])

\* C5: for cumulative thinking snapshots (each assistant message's thinking
\* extends the previous one's), whatever text the messages carry, the emitted
\* Thinking payloads concatenate exactly to the last snapshot.
C5_ThinkingConcatToFinal ==
    ( /\ received # <<>>
      /\ AllAssistant
      /\ \A i \in 1..(Len(received) - 1) :
            IsPrefix(FullThinking(received[i].content),
                     FullThinking(received[i + 1].content)) )
    => ThinkingOut(events) = FullThinking(LastMsg.content)

\* C8: a result message emits a TextDelta iff its subtype is "success", and
\* then exactly one, whose text is the message's result, whatever was emitted
\* before it.
C8_ResultOverride ==
    (received # <<>> /\ LastMsg.cls = "ResultMessage")
    => /\ (\E i \in 1..Len(emitted) : IsTextDelta(emitted[i]))
            <=> LastMsg.subtype = "success"
       /\ LastMsg.subtype = "success"
            => /\ Len(emitted) = 1
               /\ emitted[1].cls = "TextEvent"
               /\ emitted[1].text = LastMsg.result

\* C8 witness: text was emitted during the turn and the success result that
\* follows carries a text that is no suffix of it.
C8_Witness ==
    /\ Len(received) = 2
    /\ received[1].cls = "AssistantMessage"
    /\ BlockTexts(received[1].content) = <<"a", "b">>
    /\ received[2].cls = "ResultMessage"
    /\ received[2].subtype = "success"
    /\ received[2].result = <<"b", "a">>
    /\ emitted = <<TextEvent("text_delta", "coder", "", <<"b", "a">>)>>
    /\ TextOut(events) = <<"a", "b", "b", "a">>

----------------------------------------------------------------------------
(* Properties of one process call, checked under SpecProcess *)

\* the flattening the tool_result payload is specified to have: a string
\* verbatim; of a sequence, the texts of its text-bearing parts in order with
\* one newline between neighbours; the empty string otherwise
RECURSIVE FlattenedParts(_)
FlattenedParts(parts) ==
    IF parts = <<>> THEN <<>>
    ELSE LET n == Len(parts)
             before == SubSeq(parts, 1, n - 1)
         IN  IF ~HasAttr(parts[n], "text") THEN FlattenedParts(before)
             ELSE IF \E i \in 1..(n - 1) : HasAttr(parts[i], "text")
                  THEN FlattenedParts(before) \o <<NL>> \o parts[n].text
                  ELSE parts[n].text

Flattened(content) ==
    CASE content.py = "str" -> content.s
      [] content.py = "list" -> FlattenedParts(content.items)
      [] OTHER -> <<>>

C7_ToolStartPerBlock ==
    (pc = "done" /\ arg.cls = "AssistantMessage")
    => LET blocks == SelectSeq(arg.content, IsToolUseBlock)
           starts == SelectSeq(emitted, IsToolStart)
       IN  /\ Len(starts) = Len(blocks)
           /\ \A i \in 1..Len(blocks) :
                /\ starts[i].cls = "ToolEvent"
                /\ starts[i].tool_name = blocks[i].name
                /\ starts[i].tool_input = blocks[i].input
                /\ starts[i].tool_use_id = blocks[i].id

\* C7 witness: a message with the same tool-invocation block twice has been
\* processed and two ToolStart events were emitted.
C7_Witness ==
    /\ pc = "done"
    /\ arg.cls = "AssistantMessage"
    /\ Len(arg.content) = 2
    /\ IsToolUseBlock(arg.content[1])
    /\ arg.content[2] = arg.content[1]
    /\ Len(emitted) = 2
    /\ IsToolStart(emitted[1]) /\ emitted[2] = emitted[1]

\* C9: a partial-stream message yields at most one event: TextDelta with the
\* delta's text for a text_delta, Thinking with the delta's thinking for a
\* thinking_delta, a Progress-kind event with the raw delta as its data for an
\* input_json_delta, ToolStart with the block's name and id for the start of a
\* tool_use block, and no event for anything else.
C9_PartialStreamMapping ==
    (pc = "done" /\ arg.cls = "StreamEvent" /\ arg.event.py = "dict")
    => LET raw == arg.event.d
           kind == IF HasAttr(raw, "type") THEN raw.type ELSE ""
           isDelta == /\ kind = "content_block_delta"
                      /\ HasAttr(raw, "delta")
                      /\ raw.delta.py = "dict"
           dtype == IF isDelta /\ HasAttr(raw.delta.d, "type")
                    THEN raw.delta.d.type ELSE ""
           isToolStart == /\ kind = "content_block_start"
                          /\ HasAttr(raw, "content_block")
                          /\ raw.content_block.py = "dict"
                          /\ HasAttr(raw.content_block.d, "type")
                          /\ raw.content_block.d.type = "tool_use"
       IN  /\ Len(emitted) <= 1
           /\ dtype = "text_delta"
                => /\ Len(emitted) = 1
                   /\ emitted[1].type = "text_delta"
                   /\ emitted[1].text = Get(raw.delta.d, "text", <<>>)
           /\ dtype = "thinking_delta"
                => /\ Len(emitted) = 1
                   /\ emitted[1].type = "thinking"
                   /\ emitted[1].thinking = Get(raw.delta.d, "thinking", <<>>)
           /\ dtype = "input_json_delta"
                => /\ Len(emitted) = 1
                   /\ emitted[1].type = "progress"
                   /\ emitted[1].data = raw.delta.d
           /\ isToolStart
                => /\ Len(emitted) = 1
                   /\ emitted[1].type = "tool_start"
                   /\ emitted[1].tool_name = Get(raw.content_block.d, "name", "")
                   /\ emitted[1].tool_use_id = Get(raw.content_block.d, "id", "")
           /\ (/\ dtype \notin {"text_delta", "thinking_delta", "input_json_delta"}
               /\ ~isToolStart)
                => emitted = <<>>

\* C9 witness: an input_json_delta has been processed and one Progress-kind
\* event carries the raw delta.
C9_Witness ==
    /\ pc = "done"
    /\ arg.cls = "StreamEvent"
    /\ arg.event = PyDict([type |-> "content_block_delta",
                          delta |-> PyDict([type |-> "input_json_delta",
                                            partial_json |-> <<"{">>])])
    /\ Len(emitted) = 1
    /\ emitted[1].type = "progress"
    /\ emitted[1].data = [type |-> "input_json_delta", partial_json |-> <<"{">>]

\* a message of unrecognized shape: none of the known message classes and
\* either no event attribute, or an event that is no mapping, or a
\* content_block_delta / content_block_start event whose delta / content_block
\* entry is missing or is no mapping
UnrecognizedShape(m) ==
    /\ m.cls \notin {"SystemMessage", "AssistantMessage", "ResultMessage"}
    /\ \/ ~HasAttr(m, "event")
       \/ m.event.py # "dict"
       \/ /\ Get(m.event.d, "type", "") = "content_block_delta"
          /\ (HasAttr(m.event.d, "delta") => m.event.d.delta.py # "dict")
       \/ /\ Get(m.event.d, "type", "") = "content_block_start"
          /\ (HasAttr(m.event.d, "content_block") => m.event.d.content_block.py # "dict")

\* C10: process never raises on a message of unrecognized shape and emits no
\* event for it.
C10_UnknownShapeIgnored ==
    (pc = "done" /\ UnrecognizedShape(arg)) => (~raised /\ emitted = <<>>)

----------------------------------------------------------------------------
(* Properties of the dispatcher, checked under SpecDispatch *)

\* the callbacks invoked by the latest emit in one of its two loops, in order
InvokedIn(phase) ==
    LET d == SelectSeq(delivered, LAMBDA x : x.phase = phase)
    IN  [j \in 1..Len(d) |-> d[j].cb]

\* the list emit's second loop runs over
KindList(cbs, e) == Get(cbs, e.type, <<>>)

\* the number of times c occurs in the sequence s
Count(c, s) == Cardinality({j \in 1..Len(s) : s[j] = c})

Invoked == [j \in 1..Len(delivered) |-> delivered[j].cb]

RECURSIVE SumLen(_, _)
SumLen(f, keys) ==
    IF keys = {} THEN 0
    ELSE LET k == CHOOSE x \in keys : TRUE
         IN  Len(f[k]) + SumLen(f, keys \ {k})

\* C11: emit(e) invokes the global subscribers in registration order, then the
\* subscribers of e's kind in registration order; a callback has completed
\* before the next one starts; when emit returns, every subscriber registered
\* at the call has been invoked and has completed.
C11_EmitOrder ==
    /\ \A j \in 1..(Len(delivered) - 1) :
          /\ delivered[j].outcome # "running"
          /\ delivered[j].phase = "kind" => delivered[j + 1].phase = "kind"
    /\ IsPrefix(InvokedIn("global"), global_callbacks)
    /\ IsPrefix(InvokedIn("kind"), KindList(callbacks, em.event))
    /\ em.pc = "returned" =>
          /\ \A j \in 1..Len(delivered) : delivered[j].outcome = "done"
          /\ IsPrefix(em.at_call.global_callbacks, InvokedIn("global"))
          /\ IsPrefix(KindList(em.at_call.callbacks, em.event), InvokedIn("kind"))

\* emit has returned after two different global subscribers and then a
\* subscriber of the event's kind
C11_Witness ==
    /\ em.pc = "returned"
    /\ Len(delivered) = 3
    /\ delivered[1].cb # delivered[2].cb
    /\ delivered[2].phase = "global"
    /\ delivered[3].phase = "kind"

\* C12: every registration is held; when emit(e) returns and no callback was
\* registered during it, each callback has been invoked once per global
\* registration plus once per registration for e's kind; a callback that is
\* registered neither globally nor for e's kind is never invoked with e.
C12_OncePerRegistration ==
    /\ n_regs = Len(global_callbacks) + SumLen(callbacks, DOMAIN callbacks)
    /\ \A c \in Callbacks :
          /\ (em.pc = "returned" /\ ~em.reg_during) =>
                Count(c, Invoked) =
                    Count(c, em.at_call.global_callbacks)
                    + Count(c, KindList(em.at_call.callbacks, em.event))
          /\ (Count(c, global_callbacks) + Count(c, KindList(callbacks, em.event)) = 0) =>
                Count(c, Invoked) = 0

\* emit has returned having invoked twice a callback registered twice, and
\* without invoking a callback registered only for the other kind
C12_Witness ==
    /\ em.pc = "returned"
    /\ ~em.reg_during
    /\ ~em.reg_after
    /\ \E c \in Callbacks : Count(c, Invoked) = 2
    /\ \E c \in Callbacks, t \in DOMAIN callbacks :
          /\ t # em.event.type
          /\ Count(c, callbacks[t]) = 1
          /\ Count(c, Invoked) = 0

\* C13: a failing callback ends emit with its exception: it is the last
\* callback invoked for the event, every callback before it completed, none is
\* invoked after it, and emit itself leaves the registrations as they were.
C13_FailurePropagates ==
    /\ \A j \in 1..(Len(delivered) - 1) : delivered[j].outcome = "done"
    /\ (delivered # <<>> /\ delivered[Len(delivered)].outcome = "raised") =>
          em.pc = "raised"
    /\ em.pc = "raised" =>
          /\ delivered # <<>>
          /\ delivered[Len(delivered)].outcome = "raised"
    /\ (em.pc # "idle" /\ ~em.reg_during /\ ~em.reg_after) =>
          /\ global_callbacks = em.at_call.global_callbacks
          /\ callbacks = em.at_call.callbacks
          /\ IsPrefix(Invoked, global_callbacks \o KindList(callbacks, em.event))

\* emit has raised while subscribers later in the delivery order were still
\* to be invoked
C13_Witness ==
    /\ em.pc = "raised"
    /\ ~em.reg_during
    /\ ~em.reg_after
    /\ Len(delivered) = 1
    /\ Len(global_callbacks) = 2
    /\ KindList(callbacks, em.event) # <<>>

\* one callback invocation: which callback, with which event of which emit call
Invocation(d) == [cb |-> d.cb, event |-> d.event, n |-> d.n]

\* C14: a callback is invoked only by the emit call in progress and with that
\* call's event: no step invokes a callback with the event of an emit call that
\* has returned, whatever is registered or emitted later.
C14_NoReplay ==
    [][\A j \in 1..Len(delivered') :
          (j > Len(delivered) \/ Invocation(delivered'[j]) # Invocation(delivered[j])) =>
              /\ EmitActive(em')
              /\ delivered'[j].event = em'.event
              /\ delivered'[j].n = n_emits']_vars

\* a callback was registered after emit(e) returned and has not been invoked
\* with e
C14_Witness ==
    /\ em.pc = "returned"
    /\ em.reg_after
    /\ ~em.reg_during
    /\ \E c \in Callbacks :
          /\ Count(c, global_callbacks) = 1
          /\ Count(c, em.at_call.global_callbacks) = 0
          /\ Count(c, Invoked) = 0
    /\ delivered # <<>>

----------------------------------------------------------------------------
(* Properties of the pipeline, checked under SpecOrch and SpecOrchFair *)

\* the positions of the trace where a stage was invoked
InvokedAt(stage) ==
    {j \in 1..Len(trace) : trace[j].op = "invoke" /\ trace[j].who = stage}

Invocations(stage) == Cardinality(InvokedAt(stage))

\* stage k has returned the value v
StageReturned(k, v) ==
    \E j \in 1..Len(trace) :
        trace[j].op = "return" /\ trace[j].who = Stages[k] /\ trace[j].value = v

\* the directory d was written with the value v before position j of the trace
SavedBefore(d, v, j) ==
    \E i \in 1..(j - 1) :
        trace[i].op = "save" /\ trace[i].dir = d /\ trace[i].value = v

\* C15: when the researcher or the planner returns no artifact, no later stage
\* is invoked, and the TaskResult run_task returns has success false and the
\* stage's error label.
C15_FailureSkipsRest ==
    \A k \in 1..2 :
        StageReturned(k, PyNone) =>
            /\ \A later \in (k + 1)..3 : Invocations(Stages[later]) = 0
            /\ run.pc = "returned" =>
                  /\ run.result.success = FALSE
                  /\ run.result.error = PyStr(FailureLabel(k))

\* run_task has returned after the planner returned no artifact
C15_Witness ==
    /\ run.pc = "returned"
    /\ Invocations("researcher") = 1
    /\ Invocations("planner") = 1
    /\ StageReturned(2, PyNone)
    /\ run.result.error = PyStr("Planner agent failed")

\* C16: every TaskResult returned with success false carries a non-empty error
\* string.
C16_FailureCarriesError ==
    (run.pc = "returned" /\ run.result.success = FALSE) =>
        /\ run.result.error # PyNone
        /\ run.result.error.s # ""

\* C17: the returned TaskResult has success true exactly when the coder was
\* invoked and returned an artifact whose success flag is true.
C17_SuccessIffCoder ==
    run.pc = "returned" =>
        (run.result.success = TRUE
            <=> /\ Invocations("coder") = 1
                /\ \E v \in CodeResults : v.success /\ StageReturned(3, v))

\* run_task has returned a successful TaskResult
C17_Witness ==
    /\ run.pc = "returned"
    /\ run.result.success = TRUE
    /\ run.result.code_result \in CodeResults

\* C18: the planner is invoked only after the research artifact was written to
\* the research directory and the coder only after the plan was written to the
\* plans directory; nothing is written for a stage that returned no artifact.
C18_PersistBeforeNext ==
    /\ \A k \in 1..2 : \A j \in InvokedAt(Stages[k + 1]) :
          /\ run.out[k] # PyNone
          /\ SavedBefore(SaveDir(orch, k), run.out[k], j)
          /\ fs[SaveDir(orch, k)] = run.out[k]
    /\ \A k \in 1..2 : StageReturned(k, PyNone) => SaveDir(orch, k) \notin DOMAIN fs
    /\ \A d \in DOMAIN fs : \E k \in 1..2 :
          d = SaveDir(orch, k) /\ run.out[k] # PyNone /\ fs[d] = run.out[k]

\* the coder has been invoked with both artifacts on disk
C18_Witness ==
    /\ Invocations("coder") = 1
    /\ DOMAIN fs = {orch.research_dir, orch.plans_dir}
    /\ fs[orch.plans_dir] \in Plans

\* C19: when the planner or the coder is invoked, the directory its prompt
\* names as its input has been written earlier in this run.
C19_HandOffWritten ==
    \A k \in 2..3 : \A j \in InvokedAt(Stages[k]) :
        \E i \in 1..(j - 1) : trace[i].op = "save" /\ trace[i].dir = trace[j].dir

\* the phase events handed to the stream handler, in order
PhaseTrace ==
    SelectSeq(trace, LAMBDA x : x.op = "emit" /\ x.who = "orchestrator")

\* the phase events alternate PhaseStart / PhaseEnd with the same label
PhasesAlternate ==
    \A j \in 1..Len(PhaseTrace) :
        IF j % 2 = 1
        THEN PhaseTrace[j].event.type = "phase_start"
        ELSE /\ PhaseTrace[j].event.type = "phase_end"
             /\ PhaseTrace[j].event.phase = PhaseTrace[j - 1].event.phase

\* the phase event of the given type and the label of stage k at position j
IsPhase(j, type, k) ==
    /\ j \in 1..Len(trace)
    /\ trace[j].op = "emit"
    /\ trace[j].who = "orchestrator"
    /\ trace[j].event.type = type
    /\ trace[j].event.phase = PhaseOf(k)

\* what a stage does lies between the PhaseStart and the PhaseEnd of its label
StagesBracketed ==
    \A k \in 1..3 : \A j \in 1..Len(trace) :
        /\ (trace[j].op = "invoke" /\ trace[j].who = Stages[k]) =>
              IsPhase(j - 1, "phase_start", k)
        /\ (trace[j].op = "return" /\ trace[j].who = Stages[k] /\ j < Len(trace)) =>
              IsPhase(j + 1, "phase_end", k)
        /\ (trace[j].op = "emit" /\ trace[j].who = Stages[k]) =>
              /\ \E i \in 1..(j - 1) : IsPhase(i, "phase_start", k)
              /\ \A i \in 1..(j - 1) : ~IsPhase(i, "phase_end", k)

PhaseOpen == Len(PhaseTrace) % 2 = 1

RunOver == run.pc \in {"returned", "raised"}

\* C20 as stated: with a stream handler, the stages are bracketed, the phase
\* events alternate, and a run that is over has left no PhaseStart without
\* its PhaseEnd.
C20_EveryStartHasItsEnd ==
    orch.stream_handler =>
        /\ PhasesAlternate
        /\ StagesBracketed
        /\ RunOver => ~PhaseOpen

\* C20, amended: with a stream handler, the stages are bracketed and the phase
\* events alternate; a PhaseStart is followed by its PhaseEnd unless a
\* subscriber failed while that PhaseStart was delivered, which ends run_task
\* with the subscriber's exception before the stage is invoked.
C20_StartHasItsEndUnlessSubscriberFails ==
    /\ [](orch.stream_handler =>
            /\ PhasesAlternate
            /\ StagesBracketed
            /\ (RunOver /\ PhaseOpen) =>
                  /\ run.pc = "raised"
                  /\ ~PhaseTrace[Len(PhaseTrace)].ok
                  /\ trace[Len(trace)] = PhaseTrace[Len(PhaseTrace)])
    /\ \A n \in 1..3 :
          (Len(PhaseTrace) = 2 * n - 1 /\ PhaseTrace[2 * n - 1].ok)
              ~> (Len(PhaseTrace) >= 2 * n)

\* a stage that emitted an event of its own and returned no artifact has been
\* closed by its PhaseEnd
C20_Witness ==
    /\ orch.stream_handler
    /\ run.pc = "returned"
    /\ StageReturned(1, PyNone)
    /\ Len(PhaseTrace) = 2
    /\ \E j \in 1..Len(trace) : trace[j].op = "emit" /\ trace[j].who = "researcher"

\* the state of the pipeline: a run that returned with success false is Failed,
\* a run that an exception left is Aborted
OrchState ==
    IF run.pc = "begin" THEN "Idle"
    ELSE IF run.pc = "raised" THEN "Aborted"
    ELSE IF run.pc = "returned"
    THEN (IF run.result.success = TRUE THEN "Done" ELSE "Failed")
    ELSE <<"Researching", "Planning", "Implementing">>[run.k]

\* the states in pipeline order
StateOrder == <<"Idle", "Researching", "Planning", "Implementing", "Done">>

\* the positions of the trace where stage k returned
ReturnedAt(k) ==
    {j \in 1..Len(trace) : trace[j].op = "return" /\ trace[j].who = Stages[k]}

\* C21: run_task moves through Idle, Researching, Planning, Implementing, Done
\* one step at a time and never back; Failed (and the exit by an exception) is
\* final; every stage is invoked at most once, after every earlier stage has
\* returned an artifact, and no stage is invoked while another is running or
\* after a stage returned no artifact.
C21_StrictPipeline ==
    /\ [](/\ \A k \in 1..3 : Invocations(Stages[k]) <= 1
          /\ \A k \in 1..3 : \A j \in InvokedAt(Stages[k]) :
                /\ \A e \in 1..(k - 1) :
                      \E i \in 1..(j - 1) :
                          /\ i \in ReturnedAt(e)
                          /\ trace[i].value # PyNone
                /\ \A o \in 1..3 : \A i \in InvokedAt(Stages[o]) :
                      i < j => \E r \in ReturnedAt(o) : i < r /\ r < j)
    /\ [][\/ OrchState' = OrchState
          \/ /\ OrchState \in {"Idle", "Researching", "Planning", "Implementing"}
             /\ OrchState' \in {"Failed", "Aborted"}
          \/ \E n \in 1..4 : OrchState = StateOrder[n] /\ OrchState' = StateOrder[n + 1]]_vars

\* a run that went through every state and ended in Done
C21_Witness ==
    /\ OrchState = "Done"
    /\ \A k \in 1..3 : Invocations(Stages[k]) = 1

\* an argument of run_task that is given: neither None nor the empty string
Given(v) == v # PyNone /\ v # PyStr(<<>>)

\* C22: once run_task has derived the task description, it is the issue
\* reference, the "Additional context:" label and the task text when both are
\* given, the issue reference when only the URL is given, and the task text
\* when only the text is given; when neither is given run_task has returned
\* success false with the error "No task or issue URL provided", having invoked
\* no stage and emitted no phase event.
C22_TaskDescription ==
    run.pc # "begin" =>
        /\ (Given(run.issue_url) /\ Given(run.task)) =>
              run.task_description =
                  PyStr(<<"Implement GitHub issue: ">> \o run.issue_url.s
                        \o <<"\n\nAdditional context: ">> \o run.task.s)
        /\ (Given(run.issue_url) /\ ~Given(run.task)) =>
              run.task_description =
                  PyStr(<<"Implement GitHub issue: ">> \o run.issue_url.s)
        /\ (~Given(run.issue_url) /\ Given(run.task)) =>
              run.task_description = run.task
        /\ (~Given(run.issue_url) /\ ~Given(run.task)) =>
              /\ run.pc = "returned"
              /\ run.result.success = FALSE
              /\ run.result.error = PyStr("No task or issue URL provided")
              /\ trace = <<>>

\* run_task was called with an empty task text and no URL and has returned
C22_Witness ==
    /\ orch.stream_handler
    /\ run.task = PyStr(<<>>)
    /\ run.issue_url = PyNone
    /\ run.pc = "returned"
    /\ run.result.error = PyStr("No task or issue URL provided")

\* the positions of the trace where the runtime raised inside stage k
RaisedAt(k) ==
    {j \in 1..Len(trace) : trace[j].op = "raise" /\ trace[j].who = Stages[k]}

\* C23: when the runtime raises inside a stage, the stage returns no artifact
\* instead of raising; when an exception leaves run_task, every stage that
\* was invoked has returned, and the TaskResult run_task returns after such a
\* stage has success false (with the stage's label for researcher and planner).
C23_StageFailureContained ==
    /\ \A k \in 1..3 : \A j \in RaisedAt(k) :
          /\ (j + 1) \in ReturnedAt(k)
          /\ trace[j + 1].value = PyNone
          /\ run.pc = "returned" =>
                /\ run.result.success = FALSE
                /\ k <= 2 => run.result.error = PyStr(FailureLabel(k))
    /\ run.pc = "raised" =>
          \A k \in 1..3 : \A i \in InvokedAt(Stages[k]) :
              \E r \in ReturnedAt(k) : i < r

\* the runtime raised inside the coder and run_task has returned
C23_Witness ==
    /\ RaisedAt(3) # {}
    /\ run.pc = "returned"
    /\ run.result.code_result = PyNone

\* what the run of stage k returns when its stream ended without any text
EmptyTextResult(k) == StageValue(k, EmptyResponse)

\* C24: when a stage's stream ends with an empty final text, no later stage is
\* invoked and the TaskResult run_task returns has success false, with the
\* stage's error label for the researcher and the planner.
C24_EmptyTextFailsStage ==
    \A k \in 1..3 :
        StageReturned(k, EmptyTextResult(k)) =>
            /\ \A later \in (k + 1)..3 : Invocations(Stages[later]) = 0
            /\ run.pc = "returned" =>
                  /\ run.result.success = FALSE
                  /\ k <= 2 => run.result.error = PyStr(FailureLabel(k))

----------------------------------------------------------------------------
(* Properties of single calls, checked under SpecCall *)

\* C25: a stage result parser raises for no final text.
C25_ParsersNeverRaise ==
    (call.pc = "done" /\ call.fn \in Parsers) => ~call.outcome.raised

\* the file of a load_mcp_config call is one the configuration format rejects
Malformed(input) ==
    \/ input.file \in {"unreadable", "undecodable"}
    \/ /\ input.file = "text"
       /\ \/ ~input.json.valid
          \/ input.json.value.py # "dict"
          \/ /\ "mcpServers" \in DOMAIN input.json.value.d
             /\ LET servers == input.json.value.d["mcpServers"]
                IN  \/ servers.py # "dict"
                    \/ \E n \in DOMAIN servers.d :
                          \/ servers.d[n].py # "dict"
                          \/ \E f \in {"env", "headers"} :
                                /\ f \in DOMAIN servers.d[n].d
                                /\ servers.d[n].d[f].py # "dict"

LoadDone == call.pc = "done" /\ call.fn = "load_mcp_config"

\* C26: load_mcp_config never raises; for a missing file it returns no
\* servers and prints nothing, and for every malformed file it returns no
\* servers and has printed the warning.
C26_LoadNeverFails ==
    LoadDone =>
        /\ ~call.outcome.raised
        /\ call.input.file = "missing" =>
              call.outcome.value = EmptyDict /\ ~call.outcome.printed
        /\ Malformed(call.input) =>
              call.outcome.value = EmptyDict /\ call.outcome.printed

\* the matches of ${NAME} in s as pairs of positions: the opening "$" and
\* the closing "}", NAME being one or more characters other than "}"
Candidates(s) ==
    {c \in (1..Len(s)) \X (1..Len(s)) :
        /\ c[1] + 3 <= c[2]
        /\ s[c[1]] = "$"
        /\ s[c[1] + 1] = "{"
        /\ s[c[2]] = "}"
        /\ \A k \in (c[1] + 2)..(c[2] - 1) : s[k] # "}"}

\* the tokens of s: the matches that begin outside every earlier token
Tokens(s) ==
    CHOOSE T \in SUBSET Candidates(s) :
        \A c \in Candidates(s) :
            c \in T <=> ~\E e \in T : e[1] < c[1] /\ c[1] <= e[2]

\* what position p of s contributes to the expanded text
Contribution(s, p, environ) ==
    IF \E c \in Tokens(s) : c[1] = p
    THEN LET c == CHOOSE c \in Tokens(s) : c[1] = p
             NAME == SubSeq(s, p + 2, c[2] - 1)
         IN  IF NAME \in DOMAIN environ THEN environ[NAME] ELSE <<>>
    ELSE IF \E c \in Tokens(s) : c[1] < p /\ p <= c[2]
    THEN <<>>
    ELSE <<s[p]>>

RECURSIVE ExpandedUpTo(_, _, _)
ExpandedUpTo(s, p, environ) ==
    IF p = 0 THEN <<>>
    ELSE ExpandedUpTo(s, p - 1, environ) \o Contribution(s, p, environ)

\* a value of an env or headers map after loading
Expanded(value, environ) ==
    IF value.py = "str"
    THEN PyStr(ExpandedUpTo(value.s, Len(value.s), environ))
    ELSE value

\* the server entries of the file of a load_mcp_config call
ServersOf(input) == Get(input.json.value.d, "mcpServers", PyDict(EmptyDict)).d

\* C27: in every server entry that load_mcp_config returns, each value of
\* env and of headers has each ${NAME} token replaced by the value of the
\* environment variable NAME, or by nothing when NAME is unset; text outside
\* tokens, values that are no strings, the keys, and every other field of
\* the entry are as in the file.
C27_TokensExpanded ==
    (LoadDone /\ ~call.outcome.raised /\ call.input.file = "text"
        /\ call.input.json.valid /\ ~call.outcome.printed) =>
        LET before == ServersOf(call.input)
            after == call.outcome.value
        IN  /\ DOMAIN after = DOMAIN before
            /\ \A n \in DOMAIN before :
                  IF before[n].py # "dict" THEN after[n] = before[n]
                  ELSE /\ after[n].py = "dict"
                       /\ DOMAIN after[n].d = DOMAIN before[n].d
                       /\ \A f \in DOMAIN before[n].d :
                             IF f \in {"env", "headers"}
                             THEN /\ after[n].d[f].py = "dict"
                                  /\ DOMAIN after[n].d[f].d = DOMAIN before[n].d[f].d
                                  /\ \A k \in DOMAIN before[n].d[f].d :
                                        after[n].d[f].d[k]
                                            = Expanded(before[n].d[f].d[k],
                                                       call.input.environ)
                             ELSE after[n].d[f] = before[n].d[f]

\* a loaded entry whose env value held two matches, one inside the other,
\* with the variable set to a text that is itself a token
C27_Witness ==
    /\ LoadDone
    /\ ~call.outcome.raised
    /\ call.input.file = "text"
    /\ call.input.json.valid
    /\ <<"A">> \in DOMAIN call.input.environ
    /\ \E n \in DOMAIN ServersOf(call.input) :
          LET e == ServersOf(call.input)[n]
          IN  /\ e.py = "dict"
              /\ "env" \in DOMAIN e.d
              /\ "command" \in DOMAIN e.d
              /\ e.d.env.py = "dict"
              /\ \E k \in DOMAIN e.d.env.d :
                    /\ e.d.env.d[k].py = "str"
                    /\ Tokens(e.d.env.d[k].s) # {}
                    /\ Candidates(e.d.env.d[k].s) # Tokens(e.d.env.d[k].s)
                    /\ call.outcome.value[n].d.env.d[k] # e.d.env.d[k]

(* Properties of the artifact directories, checked under SpecStore *)

\* the latest save_to_dir call of the class and directory of the load
LatestSave == store.latest[<<store.loaded.dir, store.loaded.cls>>]

\* a load_from_dir call has been made after a save_to_dir call of the same
\* class on the same directory that returned, with no save in between
LoadedAfterSave ==
    /\ store.loaded # PyNone
    /\ <<store.loaded.dir, store.loaded.cls>> \in DOMAIN store.latest
    /\ LatestSave.returned

OutputsOf(i) == SelectSeq(render.out, LAMBDA o : o.of = i)

JsonLines == render.renderer.json_events

Human == ~render.renderer.json_events

CommonKeys == {"type", "agent", "timestamp"}

\* the payload keys the record of an event carries whatever its fields hold
PayloadKeys(event) ==
    IF event.type = "text_delta" THEN {"text"}
    ELSE IF event.type \in {"tool_start", "tool_result"} THEN {"tool", "input", "result"}
    ELSE IF event.type = "thinking" THEN {"thinking"}
    ELSE IF event.type \in {"phase_start", "phase_end"} THEN {"phase"}
    ELSE {"data"}

\* the payload keys of a record, a tool event's input and result only when
\* the event has them
PayloadKeysPresent(event) ==
    IF event.type \in {"tool_start", "tool_result"}
    THEN {"tool"}
         \cup (IF DOMAIN event.tool_input # {} THEN {"input"} ELSE {})
         \cup (IF event.tool_result # <<>> THEN {"result"} ELSE {})
    ELSE PayloadKeys(event)

\* the field of the event that a key of its record holds
FieldFor(key) ==
    IF key = "agent" THEN "agent_name"
    ELSE IF key = "tool" THEN "tool_name"
    ELSE IF key = "input" THEN "tool_input"
    ELSE IF key = "result" THEN "tool_result"
    ELSE key

\* every emit call printed one record, the records are in the order of the
\* calls, and the record of each event has the common keys and keys(event)
OneRecordEach(keys(_)) ==
    /\ Len(render.out) = Len(render.seen)
    /\ \A i \in 1..Len(render.seen) :
          LET o == render.out[i]
              event == render.seen[i]
          IN  /\ o.of = i
              /\ o.printed.stream = "stdout"
              /\ CommonKeys \cup keys(event) \subseteq DOMAIN o.printed.json
              /\ \A k \in CommonKeys \cup (keys(event) \cap DOMAIN o.printed.json) :
                    o.printed.json[k] = event[FieldFor(k)]

\* C29: with the JSON-lines renderer every emitted event produces exactly one
\* record, in emission order, with type, agent and timestamp and the payload
\* keys of its kind: text; tool, input and result; thinking; phase; or data.
C29_OneRecordPerEvent == JsonLines => OneRecordEach(PayloadKeys)

\* C29 as the code has it: the record of a tool event has tool, has input
\* only when tool_input is not empty and result only when tool_result is not
\* empty, and no record has any other key.
C29_OneRecordPerEventToolKeysWhenSet ==
    JsonLines =>
        /\ OneRecordEach(PayloadKeysPresent)
        /\ \A i \in 1..Len(render.out) :
              DOMAIN render.out[i].printed.json
                  = CommonKeys \cup PayloadKeysPresent(render.seen[i])

\* two records printed, the first of a tool start with an input and no
\* result, the second of an event without a class of its own
C29_Witness ==
    /\ JsonLines
    /\ Len(render.out) = 2
    /\ render.seen[1].type = "tool_start"
    /\ DOMAIN render.out[1].printed.json = CommonKeys \cup {"tool", "input"}
    /\ render.seen[2].cls = "StreamEvent"
    /\ "data" \in DOMAIN render.out[2].printed.json

\* the first n characters of s
Prefix(p, s, n) ==
    /\ Len(p) = (IF Len(s) < n THEN Len(s) ELSE n)
    /\ \A j \in 1..Len(p) : p[j] = s[j]

\* C30: with the human renderer a tool event prints something if and only
\* if show_tools is set, a printed tool result is the first 120 characters
\* of tool_result, and a thinking event prints something if and only if
\* show_thinking is set.
C30_VisibilityFlags ==
    Human =>
        \A i \in 1..Len(render.seen) :
            LET event == render.seen[i]
            IN  /\ event.type \in {"tool_start", "tool_result"} =>
                      /\ OutputsOf(i) # <<>> <=> render.renderer.show_tools
                      /\ \A j \in 1..Len(OutputsOf(i)) :
                            event.type = "tool_result" =>
                                Prefix(OutputsOf(i)[j].printed.result,
                                       event.tool_result, 120)
                /\ event.type = "thinking" =>
                      (OutputsOf(i) # <<>> <=> render.renderer.show_thinking)

\* a tool result of more than 120 characters printed, and a thinking event
\* that printed nothing
C30_Witness ==
    /\ Human
    /\ render.renderer.show_tools
    /\ ~render.renderer.show_thinking
    /\ Len(render.seen) = 2
    /\ render.seen[1].type = "tool_result"
    /\ Len(render.seen[1].tool_result) > 120
    /\ Len(OutputsOf(1)) = 1
    /\ render.seen[2].type = "thinking"
    /\ OutputsOf(2) = <<>>

\* a GitHub issue URL: the host, an owner, a repository, issues and a
\* number, and nothing more
ValidIssueUrl(url) ==
    /\ Len(url) >= 8
    /\ url[1] \in {"https://github.com/", "http://github.com/"}
    /\ url[2] # "/" /\ url[3] = "/" /\ url[4] # "/" /\ url[5] = "/"
    /\ url[6] = "issues" /\ url[7] = "/"
    /\ \A j \in 8..Len(url) : url[j] \in Digits

MainDone == call.pc = "done" /\ call.fn = "main"

\* C31: the command line exits with status 0 if and only if it ran the
\* pipeline and the pipeline's TaskResult has success true, and with status
\* 1 and no pipeline run when the value of --issue is no valid issue URL.
C31_ExitCode ==
    MainDone =>
        /\ call.outcome.exit_code = 0 <=>
              /\ call.outcome.ran >= 1
              /\ IF call.input.interactive
                 THEN \A j \in 1..Len(call.input.entered) :
                          call.input.entered[j] = "success"
                 ELSE call.input.pipeline = "success"
        /\ (call.input.issue # PyNone /\ ~ValidIssueUrl(call.input.issue.s)) =>
              call.outcome.exit_code = 1 /\ call.outcome.ran = 0

(* Properties of a stage's run, checked under SpecRun *)

\* C33: a subscriber's exception raised while the stage's translator emits
\* an event ends the run at once: the run returns None, no later message is
\* processed, nothing more is emitted and no text is handed to the parser.
C33_SubscriberFailureAbortsStage ==
    [][/\ (arg'.subscriber_failed /\ ~arg.subscriber_failed) =>
              /\ pc' = "failed"
              /\ result_text' = result_text
              /\ ~arg'.handed
       /\ arg.subscriber_failed =>
              /\ arg'.subscriber_failed
              /\ pc' = "failed"
              /\ received' = received
              /\ events' = events
              /\ ~arg'.handed]_vars

\* a subscriber failed on the first of two events of the first message,
\* with room for more messages
C33_Witness ==
    /\ arg.subscriber_failed
    /\ pc = "failed"
    /\ Len(received) = 1
    /\ received[1].cls = "AssistantMessage"
    /\ Len(received[1].content) = 2
    /\ Len(events) = 1
    /\ Len(received) < MaxRunMsgs

\* the success result messages received
SuccessResults ==
    SelectSeq(received, LAMBDA m : m.cls = "ResultMessage" /\ m.subtype = "success")

\* the texts of all text blocks of all assistant messages of msgs, in order
RECURSIVE AllTexts(_)
AllTexts(msgs) ==
    IF msgs = <<>> THEN <<>>
    ELSE (IF Head(msgs).cls = "AssistantMessage"
          THEN BlockTexts(Head(msgs).content) ELSE <<>>)
         \o AllTexts(Tail(msgs))

\* C34: the text handed to the parser is the result of the success result
\* message if one arrived (the empty text for a result of None where the
\* agent reads result or ""), and otherwise, in researcher, planner and
\* detail planner, the texts of all text blocks of all assistant messages
\* in arrival order.
C34_FinalTextAuthoritative ==
    arg.handed =>
        IF SuccessResults # <<>>
        THEN arg.text = (IF arg.agent \in OrEmptyAgents
                         THEN OrEmpty(SuccessResults[Len(SuccessResults)].result)
                         ELSE SuccessResults[Len(SuccessResults)].result)
        ELSE arg.agent \notin CursorAgents => arg.text = AllTexts(received)

\* a planner's text replaced by the result, after an assistant message
C34_Witness ==
    /\ arg.handed
    /\ arg.agent = "planner"
    /\ Len(received) = 2
    /\ received[1].cls = "AssistantMessage"
    /\ BlockTexts(received[1].content) # <<>>
    /\ SuccessResults # <<>>
    /\ arg.text = <<"b">>

\* the assistant messages received whose text is not empty
WithText ==
    SelectSeq(received,
              LAMBDA m : m.cls = "AssistantMessage" /\ BlockTexts(m.content) # <<>>)

\* C35: in coder and reviewer, without a success result message, the text
\* handed to the parser is the full text of the latest assistant message
\* whose text is not empty.
C35_LatestMessageText ==
    (arg.handed /\ arg.agent \in CursorAgents /\ SuccessResults = <<>>) =>
        arg.text = (IF WithText = <<>> THEN <<>>
                    ELSE BlockTexts(WithText[Len(WithText)].content))

\* the tool-use ids announced by a content_block_start among msgs
Announced(msgs) ==
    {msgs[i].event.d.content_block.d.id :
        i \in {j \in 1..Len(msgs) :
                 /\ msgs[j].cls = "StreamEvent"
                 /\ msgs[j].event.d.type = "content_block_start"}}

\* C39: with a stream handler, a tool use announced by a content_block_start
\* and then carried by a tool-use block of an assistant message has exactly
\* one ToolStart event with its id among the events of the run.
C39_OneToolStartPerId ==
    (arg.cls = "run" /\ arg.stream_handler /\ ~raised) =>
        \A i \in 1..Len(received) :
            received[i].cls = "AssistantMessage" =>
                \A b \in 1..Len(received[i].content) :
                    (/\ HasAttr(received[i].content[b], "name")
                     /\ received[i].content[b].id \in Announced(SubSeq(received, 1, i - 1)))
                    => Cardinality({n \in 1..Len(events) :
                                      /\ events[n].type = "tool_start"
                                      /\ events[n].tool_use_id = received[i].content[b].id})
                           = 1

(* Further properties of the pipeline, checked under SpecOrch *)

\* the values error can have: None or one of the three labels
ErrorLabels ==
    {PyNone, PyStr("No task or issue URL provided"),
     PyStr("Researcher agent failed"), PyStr("Planner agent failed")}

\* C36: the TaskResult that run_task returns has a plan only with a research
\* result and a code result only with a plan; with success true it has all
\* three and no error; its error is None or one of the fixed labels.
C36_ResultConsistent ==
    run.pc = "returned" =>
        /\ run.result.plan # PyNone => run.result.research_result # PyNone
        /\ run.result.code_result # PyNone => run.result.plan # PyNone
        /\ run.result.success =>
              /\ run.result.research_result # PyNone
              /\ run.result.plan # PyNone
              /\ run.result.code_result # PyNone
              /\ run.result.error = PyNone
        /\ run.result.error \in ErrorLabels

\* run_task returned after the planner failed: a research result, no plan,
\* no code result and the planner's label
C36_Witness ==
    /\ run.pc = "returned"
    /\ run.result.research_result # PyNone
    /\ run.result.plan = PyNone
    /\ run.result.code_result = PyNone
    /\ ~run.result.success
    /\ run.result.error = PyStr("Planner agent failed")

\* the events handed to the stream handler during run_task, in order
EmittedInRun ==
    LET emits == SelectSeq(trace, LAMBDA t : t.op = "emit")
    IN  [j \in 1..Len(emits) |-> emits[j].event]

\* the agent name of the stage that belongs to a phase label
AgentOfPhase(label) ==
    IF label = "Research" THEN "researcher"
    ELSE IF label = "Planning" THEN "planner"
    ELSE IF label = "Implementation" THEN "coder"
    ELSE "none"

\* C38: in the events of one run_task every phase event is tagged
\* "orchestrator", and every other event lies inside an open phase bracket
\* and is tagged with the agent name of the stage of that phase.
C38_AgentNameInBracket ==
    LET es == EmittedInRun
    IN  \A j \in 1..Len(es) :
            IF es[j].cls = "PhaseEvent"
            THEN es[j].agent_name = "orchestrator"
            ELSE \E i \in 1..(j - 1) :
                    /\ es[i].cls = "PhaseEvent"
                    /\ es[i].type = "phase_start"
                    /\ AgentOfPhase(es[i].phase) = es[j].agent_name
                    /\ \A m \in (i + 1)..(j - 1) : es[m].cls # "PhaseEvent"

\* the planner emitted a text event between PhaseStart(Planning) and
\* PhaseEnd(Planning)
C38_Witness ==
    LET es == EmittedInRun
    IN  \E i, j, m \in 1..Len(es) :
            /\ i < j /\ j < m
            /\ es[i].cls = "PhaseEvent" /\ es[i].type = "phase_start"
            /\ es[i].phase = "Planning"
            /\ es[j].cls = "TextEvent" /\ es[j].agent_name = "planner"
            /\ es[m].cls = "PhaseEvent" /\ es[m].type = "phase_end"
            /\ es[m].phase = "Planning"

(* The events of both emitters, checked under SpecEvents *)

\* the kinds a payload field is meaningful for
KindsOf(f) ==
    IF f = "text" THEN {"text_delta"}
    ELSE IF f \in {"tool_name", "tool_input"} THEN {"tool_start"}
    ELSE IF f = "tool_result" THEN {"tool_result"}
    ELSE IF f = "tool_use_id" THEN {"tool_start", "tool_result"}
    ELSE IF f = "thinking" THEN {"thinking"}
    ELSE IF f = "phase" THEN {"phase_start", "phase_end"}
    ELSE {"progress"}

PayloadFields ==
    {"text", "tool_name", "tool_input", "tool_result", "tool_use_id",
     "thinking", "phase", "message"}

\* the kinds an event class may be tagged with
KindsOfClass(cls) ==
    IF cls = "TextEvent" THEN {"text_delta"}
    ELSE IF cls = "ToolEvent" THEN {"tool_start", "tool_result"}
    ELSE IF cls = "ThinkingEvent" THEN {"thinking"}
    ELSE IF cls = "PhaseEvent" THEN {"phase_start", "phase_end"}
    ELSE IF cls = "ProgressEvent" THEN {"progress"}
    ELSE {"session_init", "session_complete", "progress", "error"}

\* the tag agrees with the class, and a payload field the kind has no use
\* for is at its default
TaggedUnion(e) ==
    /\ e.type \in KindsOfClass(e.cls)
    /\ \A f \in PayloadFields :
           e[f] # NoEvent[f] => e.type \in KindsOf(f)

\* C32: every event the MessageProcessor or the orchestrator emits has a kind
\* tag that agrees with its payload class, and every payload field that is not
\* meaningful for the kind at its empty default.
C32_TaggedUnion ==
    /\ \A j \in 1..Len(events) : TaggedUnion(events[j])
    /\ \A j \in 1..Len(EmittedInRun) : TaggedUnion(EmittedInRun[j])

\* the processor emitted a ToolResult with a result text and a tool-use id,
\* and neither a tool name nor a tool input
C32_Witness ==
    \E j \in 1..Len(events) :
        /\ events[j].cls = "ToolEvent"
        /\ events[j].type = "tool_result"
        /\ events[j].tool_result # <<>>
        /\ events[j].tool_use_id # ""
        /\ events[j].tool_name = ""
        /\ events[j].tool_input = EmptyDict

(* Registration during an emit, checked under SpecDispatch *)

\* C40: emit(e) invokes only the subscribers that were registered when it was
\* called: in each loop no more callbacks are invoked than the list held at
\* the call, so a subscriber registered while emit(e) is in progress is not
\* invoked for e.
C40_OnlyRegisteredAtCall ==
    em.pc # "idle" =>
        /\ Len(InvokedIn("global")) <= Len(em.at_call.global_callbacks)
        /\ Len(InvokedIn("kind")) <= Len(KindList(em.at_call.callbacks, em.event))

(* A stage with and without a stream handler, checked under SpecRun *)

\* the loop's locals at the call of run
LoopStart == [prev_text_len |-> 0, delta |-> <<>>, result_text |-> <<>>]

\* the loop's locals after the messages msgs in a stage that has no stream
\* handler: processor is None, and the loop only updates its locals
RECURSIVE LoopOver(_, _, _)
LoopOver(agent, msgs, l) ==
    IF msgs = <<>> THEN l
    ELSE LoopOver(agent, Tail(msgs),
                  RunStep(agent, l.prev_text_len, l.result_text, l.delta, Head(msgs)))

\* C37: a stream handler whose subscribers never fail does not change a
\* stage's outcome: on the same messages the stage does not fail and holds
\* the final text it holds without a handler (so run_task invokes the same
\* stages, persists the same artifacts and returns an equal TaskResult).
C37_HandlerTransparent ==
    (arg.stream_handler /\ ~arg.subscriber_failed) =>
        /\ pc # "failed"
        /\ result_text = LoopOver(arg.agent, received, LoopStart).result_text

====
